---- MODULE Spec2Model ----
(***************************************************************************)
(* cconfig: the schema tree (config_schema.hpp / config_schema.cpp), the   *)
(* element tree (config_tree.hpp) and the schema parser's tree-building    *)
(* actions (ConfigSchema.g), with the validator that reads both.           *)
(*                                                                         *)
(* A std::string is a sequence of one-character strings, so that joins,    *)
(* replacements and comparisons are computed character by character.       *)
(* An error message is a pair <<text, arg>>: the fixed text the code       *)
(* concatenates around an argument, and the argument as a std::string.     *)
(***************************************************************************)
EXTENDS Integers, Sequences, FiniteSets, TLC

(***************************************************************************)
(* Bounds of the model.                                                    *)
(***************************************************************************)
\* schema nodes the parsed schema file may create (root included)
MaxNodes == 4
\* longest list literal of a configuration file
MaxListLen == 2
\* elements of a configuration file (root included)
MaxElems == 5
\* identifiers used as declaration names and as configuration keys
Names == {<<"a">>, <<"b">>}
\* attribute names a schema file uses, and the literals given to them
AttrNames == {"min"}

NULL == 0

\* the characters used, in ascending character-code order
Ascii == <<"/", "0", "1", "2", "[", "]", "_", "a", "b", "c", "d", "e", "m", "n", "u">>

CharCode(c) == CHOOSE i \in 1..Len(Ascii) : Ascii[i] = c

\* std::string operator< : lexicographic on character codes
RECURSIVE StrLess(_, _)
StrLess(s, t) ==
    IF t = << >> THEN FALSE
    ELSE IF s = << >> THEN TRUE
    ELSE IF Head(s) = Head(t) THEN StrLess(Tail(s), Tail(t))
    ELSE CharCode(Head(s)) < CharCode(Head(t))

\* iteration order of a std::map<std::string, ...> over the key set S
RECURSIVE SortedKeys(_)
SortedKeys(S) ==
    IF S = {} THEN << >>
    ELSE LET m == CHOOSE x \in S : \A y \in S : ~StrLess(y, x)
         IN  <<m>> \o SortedKeys(S \ {m})

(***************************************************************************)
(* The state.                                                              *)
(*   nodes    the schema nodes allocated so far; a node pointer is an      *)
(*            index, NULL is 0, node 1 is the root group made by `file`    *)
(*   stack    the group and list types the parser has open                 *)
(*   pending  the node a `type` rule has returned and that is not attached *)
(*   decl     for each node, the arguments of the group::add_child call    *)
(*            that attached it (the declaration's name and status)         *)
(*   pc       parsing, loaded (schema::load returned), validated           *)
(*   elem, strict, result   the arguments and the outcome of the last      *)
(*            schema::validate call                                        *)
(*   call, outcome   a call made on the element tree elem (util::split,    *)
(*            element::lookup, list::get) and how it ended                 *)
(*   history  the add_attribute calls made on a node, in order             *)
(***************************************************************************)
VARIABLES nodes, stack, pending, decl, pc, elem, strict, result, call, outcome, history

vars == <<nodes, stack, pending, decl, pc, elem, strict, result, call, outcome, history>>

\* typeid tags of the atom variant
AtomTypes == {"bool", "long", "double", "string"}

\* node(): required_(false), parent_(NULL), no name, no attributes
node(kind, type) ==
    [kind |-> kind, type_ |-> type, name_ |-> << >>, required_ |-> FALSE,
     parent_ |-> NULL, attributes_ |-> << >>, children_ |-> << >>]

(***************************************************************************)
(* Schema tree construction.                                               *)
(***************************************************************************)
\* node::add_attribute: std::map::insert keeps an existing entry
add_attribute(ns, n, name, value) ==
    IF name \in DOMAIN ns[n].attributes_ THEN ns
    ELSE [ns EXCEPT ![n].attributes_ = (name :> value) @@ @]

has_attribute(ns, n, name) == name \in DOMAIN ns[n].attributes_

\* add_child that marks the node but forgets the flag of the group itself
group_add_child_node_only(ns, g, name, n, required) ==
    LET ins == IF name \in DOMAIN ns[g].children_ THEN ns[g].children_
               ELSE (name :> n) @@ ns[g].children_
        req == required \/ ns[n].required_
    IN  [i \in DOMAIN ns |->
            IF i = n
                THEN [ns[i] EXCEPT !.name_ = name, !.parent_ = g, !.required_ = req \/ @]
            ELSE IF i = g THEN [ns[i] EXCEPT !.children_ = ins]
            ELSE ns[i]]

\* group::add_child: std::map::insert keeps an existing entry; name, parent
\* and the required flags are set in every case
group_add_child(ns, g, name, n, required) ==
    LET ins == IF name \in DOMAIN ns[g].children_ THEN ns[g].children_
               ELSE (name :> n) @@ ns[g].children_
        req == required \/ ns[n].required_
    IN  [i \in DOMAIN ns |->
            IF i = n /\ i = g
                THEN [ns[i] EXCEPT !.children_ = ins, !.name_ = name, !.parent_ = g,
                                   !.required_ = req \/ @]
            ELSE IF i = n
                THEN [ns[i] EXCEPT !.name_ = name, !.parent_ = g, !.required_ = req \/ @]
            ELSE IF i = g
                THEN [ns[i] EXCEPT !.children_ = ins, !.required_ = req \/ @]
            ELSE ns[i]]

\* list::add_child: push_back and the parent link, nothing else
list_add_child(ns, l, n) ==
    [i \in DOMAIN ns |->
        IF i = n /\ i = l
            THEN [ns[i] EXCEPT !.children_ = Append(@, n), !.parent_ = l]
        ELSE IF i = n THEN [ns[i] EXCEPT !.parent_ = l]
        ELSE IF i = l THEN [ns[i] EXCEPT !.children_ = Append(@, n)]
        ELSE ns[i]]

(***************************************************************************)
(* node::uri and node::uri_safe.                                           *)
(***************************************************************************)
\* boost::algorithm::join
RECURSIVE Join(_, _)
Join(parts, sep) ==
    IF parts = << >> THEN << >>
    ELSE IF Len(parts) = 1 THEN parts[1]
    ELSE parts[1] \o sep \o Join(Tail(parts), sep)

RECURSIVE uri_elements(_, _)

\* a loop that leaves the "[]" of a list out
uri_elements_without_suffix(ns, n) ==
    IF n = NULL THEN << >>
    ELSE LET element == IF ns[n].parent_ = NULL THEN << >>
                        ELSE IF ns[n].name_ = << >> THEN <<"u", "n", "n", "a", "m", "e", "d">>
                        ELSE ns[n].name_
         IN  Append(uri_elements(ns, ns[n].parent_), element)

\* the loop of node::uri: the segments from the root down to n
uri_elements(ns, n) ==
    IF n = NULL THEN << >>
    ELSE LET element == IF ns[n].parent_ = NULL THEN << >>
                        ELSE IF ns[n].name_ = << >> THEN <<"u", "n", "n", "a", "m", "e", "d">>
                        ELSE ns[n].name_
             suffix  == IF ns[n].kind = "list" THEN <<"[", "]">> ELSE << >>
         IN  Append(uri_elements(ns, ns[n].parent_), element \o suffix)

uri(ns, n) ==
    IF ns[n].parent_ = NULL THEN <<"/">>
    ELSE Join(uri_elements(ns, n), <<"/">>)

\* boost::algorithm::replace_all_copy(s, from, to) for one-character from, to
replace_all_copy(s, from, to) == [i \in DOMAIN s |-> IF s[i] = from THEN to ELSE s[i]]

\* boost::algorithm::erase_all(u, "[]"): every occurrence, left to right
RECURSIVE erase_all_brackets(_)
erase_all_brackets(u) ==
    IF Len(u) < 2 THEN u
    ELSE IF u[1] = "[" /\ u[2] = "]" THEN erase_all_brackets(SubSeq(u, 3, Len(u)))
    ELSE <<u[1]>> \o erase_all_brackets(Tail(u))

uri_safe(ns, n) == erase_all_brackets(replace_all_copy(uri(ns, n), "/", "_"))

(***************************************************************************)
(* The element tree.                                                       *)
(***************************************************************************)
atom(type, value) == [kind |-> "atom", type |-> type, value |-> value]
group(settings) == [kind |-> "group", settings |-> settings]
list(items) == [kind |-> "list", items |-> items]

(***************************************************************************)
(* Validation.  A call either returns a validation_result or leaves by an  *)
(* exception that no handler of the validator catches.                     *)
(***************************************************************************)
validation_result(valid, error_uri, error_message) ==
    [thrown |-> "none", valid |-> valid, error_uri |-> error_uri,
     error_message |-> error_message]

Valid == validation_result(TRUE, << >>, <<"", << >> >>)

\* a cconfig::schema::exception leaving the call
schema_exception(what) ==
    [thrown |-> "schema::exception", valid |-> FALSE, error_uri |-> << >>,
     error_message |-> what]

\* a get_attribute that hands out the stored value whatever its type
get_attribute_unchecked(ns, n, T, name) ==
    IF name \notin DOMAIN ns[n].attributes_
        THEN [ok |-> FALSE, value |-> 0, what |-> <<"Attribute not found (%)", name>>]
    ELSE [ok |-> TRUE, value |-> ns[n].attributes_[name].value, what |-> << >>]

\* node::get_attribute<T>: the attribute must exist and boost::get<T> must
\* find T as the type held by the variant, else a schema exception
get_attribute(ns, n, T, name) ==
    IF name \notin DOMAIN ns[n].attributes_
        THEN [ok |-> FALSE, value |-> 0, what |-> <<"Attribute not found (%)", name>>]
    ELSE IF ns[n].attributes_[name].type # T
        THEN [ok |-> FALSE, value |-> 0,
              what |-> <<"Invalid conversion requested for attribute %", name>>]
    ELSE [ok |-> TRUE, value |-> ns[n].attributes_[name].value, what |-> << >>]

\* the name atom::validate gives to the declared type
type_name(type) ==
    IF type = "string" THEN <<"s", "t", "r", "i", "n", "g">>
    ELSE IF type = "long" THEN <<"i", "n", "t", "e", "g", "e", "r">>
    ELSE IF type = "bool" THEN <<"b", "o", "o", "l">>
    ELSE IF type = "double" THEN <<"f", "l", "o", "a", "t">>
    ELSE << >>

\* atom validation that lets an integer value pass for a float schema
atom_validate_coercing(ns, n, e) ==
    IF e.kind # "atom"
        THEN validation_result(FALSE, uri(ns, n), <<"Atom required", << >> >>)
    ELSE IF e.type # ns[n].type_ /\ ~(e.type = "long" /\ ns[n].type_ = "double")
        THEN validation_result(FALSE, uri(ns, n),
                <<"Type mismatch, % required", type_name(ns[n].type_)>>)
    ELSE Valid

atom_validate(ns, n, e) ==
    IF e.kind # "atom"
        THEN validation_result(FALSE, uri(ns, n), <<"Atom required", << >> >>)
    ELSE IF e.type # ns[n].type_
        THEN validation_result(FALSE, uri(ns, n),
                <<"Type mismatch, % required", type_name(ns[n].type_)>>)
    ELSE Valid

\* a strict pass that looks at the first key of the element only
group_strict_loop_first_key(ns, n, keys) ==
    IF keys = << >> THEN Valid
    ELSE IF Head(keys) \notin DOMAIN ns[n].children_
        THEN validation_result(FALSE, uri(ns, n),
                <<"Attribute '%' not found in schema (strict validation). This might possibly be a typo.",
                  Head(keys)>>)
    ELSE Valid

\* the strict pass of group::validate over the keys present in the element
RECURSIVE group_strict_loop(_, _, _)
group_strict_loop(ns, n, keys) ==
    IF keys = << >> THEN Valid
    ELSE IF Head(keys) \notin DOMAIN ns[n].children_
        THEN validation_result(FALSE, uri(ns, n),
                <<"Attribute '%' not found in schema (strict validation). This might possibly be a typo.",
                  Head(keys)>>)
    ELSE group_strict_loop(ns, n, Tail(keys))

\* boost::lexical_cast<std::string> of an unsigned number
RECURSIVE lexical_cast_string(_)
lexical_cast_string(v) ==
    LET Digits == <<"0", "1", "2", "3", "4", "5", "6", "7", "8", "9">>
    IN  IF v < 10 THEN <<Digits[v + 1]>>
        ELSE lexical_cast_string(v \div 10) \o <<Digits[(v % 10) + 1]>>

\* the min check of list::validate
list_min_check(ns, n, e) ==
    IF has_attribute(ns, n, "min")
        THEN LET min == get_attribute(ns, n, "int", "min")
             IN  IF ~min.ok THEN schema_exception(min.what)
                 ELSE IF Len(e.items) < min.value
                     THEN validation_result(FALSE, uri(ns, n),
                            <<"List has not enough entries, need at least %",
                              lexical_cast_string(min.value)>>)
                 ELSE Valid
    ELSE Valid

RECURSIVE validate(_, _, _, _), group_child_loop(_, _, _, _, _), list_loop(_, _, _, _, _)

\* a loop that reports a missing child at the child's uri
group_child_loop_at_child(ns, n, keys, e, s) ==
    IF keys = << >> THEN Valid
    ELSE LET key == Head(keys)
             c   == ns[n].children_[key]
         IN  IF key \in DOMAIN e.settings
                 THEN LET r == validate(ns, c, e.settings[key], s)
                      IN  IF r.thrown # "none" \/ ~r.valid THEN r
                          ELSE group_child_loop(ns, n, Tail(keys), e, s)
             ELSE IF ns[c].required_
                 THEN validation_result(FALSE, uri(ns, c),
                        <<"Missing required attribute '%'", key>>)
             ELSE group_child_loop(ns, n, Tail(keys), e, s)

\* a loop that fails on every absent child, required or not
group_child_loop_all_required(ns, n, keys, e, s) ==
    IF keys = << >> THEN Valid
    ELSE LET key == Head(keys)
             c   == ns[n].children_[key]
         IN  IF key \in DOMAIN e.settings
                 THEN LET r == validate(ns, c, e.settings[key], s)
                      IN  IF r.thrown # "none" \/ ~r.valid THEN r
                          ELSE group_child_loop(ns, n, Tail(keys), e, s)
             ELSE validation_result(FALSE, uri(ns, n),
                        <<"Missing required attribute '%'", key>>)

\* the loop of group::validate over the declared children, in map order
group_child_loop(ns, n, keys, e, s) ==
    IF keys = << >> THEN Valid
    ELSE LET key == Head(keys)
             c   == ns[n].children_[key]
         IN  IF key \in DOMAIN e.settings
                 THEN LET r == validate(ns, c, e.settings[key], s)
                      IN  IF r.thrown # "none" \/ ~r.valid THEN r
                          ELSE group_child_loop(ns, n, Tail(keys), e, s)
             ELSE IF ns[c].required_
                 THEN validation_result(FALSE, uri(ns, n),
                        <<"Missing required attribute '%'", key>>)
             ELSE group_child_loop(ns, n, Tail(keys), e, s)

\* the loop of list::validate over the elements, each against the first child
list_loop(ns, n, items, i, s) ==
    IF i > Len(items) THEN Valid
    ELSE LET r == validate(ns, ns[n].children_[1], items[i], s)
         IN  IF r.thrown # "none" \/ ~r.valid THEN r
             ELSE list_loop(ns, n, items, i + 1, s)

\* a group validation that looks for undeclared keys before the children
group_validate_strict_first(ns, n, e, s) ==
    IF e.kind # "group"
        THEN validation_result(FALSE, uri(ns, n), <<"Group required", << >> >>)
    ELSE LET r == IF s THEN group_strict_loop(ns, n, SortedKeys(DOMAIN e.settings))
                  ELSE Valid
         IN  IF ~r.valid THEN r
             ELSE group_child_loop(ns, n, SortedKeys(DOMAIN ns[n].children_), e, s)

group_validate(ns, n, e, s) ==
    IF e.kind # "group"
        THEN validation_result(FALSE, uri(ns, n), <<"Group required", << >> >>)
    ELSE LET r == group_child_loop(ns, n, SortedKeys(DOMAIN ns[n].children_), e, s)
         IN  IF r.thrown # "none" \/ ~r.valid THEN r
             ELSE IF s THEN group_strict_loop(ns, n, SortedKeys(DOMAIN e.settings))
             ELSE Valid

\* list validation that reports a wrong kind with the text of as_list
list_validate_group_text(ns, n, e, s) ==
    IF e.kind # "list"
        THEN validation_result(FALSE, uri(ns, n), <<"Group required", << >> >>)
    ELSE LET r == list_loop(ns, n, e.items, 1, s)
         IN  IF r.thrown # "none" \/ ~r.valid THEN r
             ELSE list_min_check(ns, n, e)

list_validate(ns, n, e, s) ==
    IF e.kind # "list"
        THEN validation_result(FALSE, uri(ns, n), <<"List required", << >> >>)
    ELSE LET r == list_loop(ns, n, e.items, 1, s)
         IN  IF r.thrown # "none" \/ ~r.valid THEN r
             ELSE list_min_check(ns, n, e)

\* node::validate, dispatched on the dynamic type of the schema node
validate(ns, n, e, s) ==
    IF ns[n].kind = "group" THEN group_validate(ns, n, e, s)
    ELSE IF ns[n].kind = "list" THEN list_validate(ns, n, e, s)
    ELSE atom_validate(ns, n, e)

\* schema::validate: root_->validate(config.root(), strict)
schema_validate(ns, e, s) == validate(ns, 1, e, s)

(***************************************************************************)
(* The configurations handed to the validator.  For a schema node the      *)
(* candidates are: at a declared key every candidate of the child schema,  *)
(* at an undeclared key an atom, in a list up to MaxListLen candidates of  *)
(* the child schema, and in every place the elements of the other kinds;   *)
(* a configuration has at most MaxElems elements.                          *)
(***************************************************************************)
\* one atom of each type of the variant (a double is counted in halves)
AtomElems ==
    {atom("bool", TRUE), atom("long", 1), atom("double", 3), atom("string", <<"x">>)}

\* the number of elements of a configuration tree
RECURSIVE Size(_), SizeSum(_)
SizeSum(q) == IF q = << >> THEN 0 ELSE Size(Head(q)) + SizeSum(Tail(q))

Size(e) ==
    IF e.kind = "group"
        THEN 1 + SizeSum([i \in 1..Cardinality(DOMAIN e.settings) |->
                            e.settings[SortedKeys(DOMAIN e.settings)[i]]])
    ELSE IF e.kind = "list" THEN 1 + SizeSum(e.items)
    ELSE 1

RECURSIVE ElemsFor(_, _, _), SettingsFor(_, _, _, _), ItemsFor(_, _, _, _)

\* the settings maps over the keys with at most max elements in all, each
\* key absent or bound to a candidate
SettingsFor(ns, n, keys, max) ==
    IF keys = << >> \/ max = 0 THEN {<< >>}
    ELSE LET key  == Head(keys)
             vals == IF key \in DOMAIN ns[n].children_
                         THEN ElemsFor(ns, ns[n].children_[key], max)
                     ELSE {atom("long", 1)}
         IN  SettingsFor(ns, n, Tail(keys), max) \cup
             UNION {{(key :> v) @@ m : m \in SettingsFor(ns, n, Tail(keys), max - Size(v))} :
                        v \in vals}

\* the sequences of at most len candidates with at most max elements in all
ItemsFor(ns, n, len, max) ==
    IF len = 0 \/ max = 0 THEN {<< >>}
    ELSE {<< >>} \cup
         UNION {{<<v>> \o q : q \in ItemsFor(ns, n, len - 1, max - Size(v))} :
                    v \in ElemsFor(ns, n, max)}

\* the candidates for a schema node with at most max elements, max > 0
ElemsFor(ns, n, max) ==
    IF ns[n].kind = "atom"
        THEN AtomElems \cup {group(<< >>), list(<< >>)}
    ELSE IF ns[n].kind = "list"
        THEN {list(q) : q \in ItemsFor(ns, ns[n].children_[1], MaxListLen, max - 1)}
                \cup {atom("long", 1), group(<< >>)}
    ELSE {group(m) : m \in SettingsFor(ns, n, SortedKeys(Names), max - 1)}
            \cup {atom("long", 1), list(<< >>)}

\* a configuration file's root is always a group (Config.g, file)
Configs == {e \in ElemsFor(nodes, 1, MaxElems) : e.kind = "group"}

\* the attribute literals of the schema files considered
AttrValues == {[type |-> "long", value |-> 2]}

(***************************************************************************)
(* The schema parser (ConfigSchema.g): one action per rule that builds the *)
(* tree.  Children are attached to a group or list type before that type   *)
(* is itself returned to the enclosing declaration.                        *)
(***************************************************************************)
NoResult == [thrown |-> "none", valid |-> FALSE, error_uri |-> << >>,
             error_message |-> <<"not validated", << >> >>]

\* A call on the element tree ends by returning a value or by an exception;
\* `what` is the message as a tuple of its fixed text and its arguments.
NoValue == [kind |-> "none"]
Return(v) == [thrown |-> "none", what |-> << >>, value |-> v]
Throw(type, what) == [thrown |-> type, what |-> what, value |-> NoValue]

\* a call of member op on element `on`, with its arguments
Call(op, on, path, T, default_value, index) ==
    [op |-> op, on |-> on, path |-> path, T |-> T,
     default_value |-> default_value, index |-> index]

\* no call on the element tree was made
NoCall == Call("none", NoValue, << >>, "none", NoValue, << >>)
NoOutcome == Return(NoValue)

\* a node no variableDefinition has attached
NoDecl == [group |-> NULL, name |-> << >>, required |-> FALSE]

\* file: $value = new cconfig::schema::group()
Init ==
    /\ nodes = <<node("group", "none")>>
    /\ stack = <<1>>
    /\ pending = NULL
    /\ decl = <<NoDecl>>
    /\ pc = "parsing"
    /\ elem = group(<< >>)
    /\ strict = FALSE
    /\ result = NoResult
    /\ call = NoCall
    /\ outcome = NoOutcome
    /\ history = << >>

top == stack[Len(stack)]

\* primitiveType: new cconfig::schema::atom(typeid(...))
primitiveType(type) ==
    /\ pc = "parsing" /\ pending = NULL /\ Len(nodes) < MaxNodes
    /\ nodes' = Append(nodes, node("atom", type))
    /\ decl' = Append(decl, NoDecl)
    /\ pending' = Len(nodes) + 1
    /\ UNCHANGED <<stack, pc, elem, strict, result, call, outcome, history>>

\* groupType: $value = new cconfig::schema::group(), then its declarations
groupType ==
    /\ pc = "parsing" /\ pending = NULL /\ Len(nodes) < MaxNodes
    /\ nodes' = Append(nodes, node("group", "none"))
    /\ decl' = Append(decl, NoDecl)
    /\ stack' = Append(stack, Len(nodes) + 1)
    /\ UNCHANGED <<pending, pc, elem, strict, result, call, outcome, history>>

\* listType and arrayType: $value = new cconfig::schema::list(), then its type
listType ==
    /\ pc = "parsing" /\ pending = NULL /\ Len(nodes) < MaxNodes
    /\ nodes' = Append(nodes, node("list", "none"))
    /\ decl' = Append(decl, NoDecl)
    /\ stack' = Append(stack, Len(nodes) + 1)
    /\ UNCHANGED <<pending, pc, elem, strict, result, call, outcome, history>>

\* attribute: $n->add_attribute($ID.text, value); the attribute list of a
\* list type comes before its child type
attribute(name, value) ==
    /\ pc = "parsing" /\ pending = NULL
    /\ nodes[top].kind = "list" /\ nodes[top].children_ = << >>
    /\ ~has_attribute(nodes, top, name)
    /\ nodes' = add_attribute(nodes, top, name, value)
    /\ UNCHANGED <<stack, pending, decl, pc, elem, strict, result, call, outcome, history>>

\* variableDefinition: $g->add_child($ID.text, $type.value, r); a name may
\* be declared again in the same group
variableDefinition(name, r) ==
    /\ pc = "parsing" /\ pending # NULL
    /\ nodes[top].kind = "group"
    /\ nodes' = group_add_child(nodes, top, name, pending, r)
    /\ decl' = [decl EXCEPT ![pending] = [group |-> top, name |-> name, required |-> r]]
    /\ pending' = NULL
    /\ UNCHANGED <<stack, pc, elem, strict, result, call, outcome, history>>

\* the end of groupType, after (variableDefinition)+ : the group is returned
groupTypeEnd ==
    /\ pc = "parsing" /\ pending = NULL
    /\ Len(stack) > 1 /\ nodes[top].kind = "group"
    /\ DOMAIN nodes[top].children_ # {}
    /\ pending' = top
    /\ stack' = SubSeq(stack, 1, Len(stack) - 1)
    /\ UNCHANGED <<nodes, decl, pc, elem, strict, result, call, outcome, history>>

\* the end of listType and arrayType: $value->add_child($type.value)
listTypeEnd ==
    /\ pc = "parsing" /\ pending # NULL
    /\ nodes[top].kind = "list"
    /\ nodes' = list_add_child(nodes, top, pending)
    /\ pending' = top
    /\ stack' = SubSeq(stack, 1, Len(stack) - 1)
    /\ UNCHANGED <<decl, pc, elem, strict, result, call, outcome, history>>

\* schema::load returns: root_ = parser.file()
load ==
    /\ pc = "parsing" /\ pending = NULL /\ stack = <<1>>
    /\ pc' = "loaded"
    /\ UNCHANGED <<nodes, stack, pending, decl, elem, strict, result, call, outcome, history>>

\* schema::validate(config, strict)
Validate ==
    /\ pc = "loaded"
    /\ \E e \in Configs, s \in BOOLEAN :
            /\ elem' = e
            /\ strict' = s
            /\ result' = schema_validate(nodes, e, s)
    /\ pc' = "validated"
    /\ UNCHANGED <<nodes, stack, pending, decl, call, outcome, history>>

Next ==
    \/ \E type \in AtomTypes : primitiveType(type)
    \/ groupType
    \/ listType
    \/ \E name \in AttrNames, value \in AttrValues : attribute(name, value)
    \/ \E name \in Names, r \in BOOLEAN : variableDefinition(name, r)
    \/ groupTypeEnd
    \/ listTypeEnd
    \/ load
    \/ Validate

Spec == Init /\ [][Next]_vars

(***************************************************************************)
(* The path resolver (util::split).  A path is a sequence of characters.   *)
(***************************************************************************)
\* boost::algorithm::erase_all_copy(s, c) for a one-character c
RECURSIVE erase_all_copy(_, _)
erase_all_copy(s, c) ==
    IF s = << >> THEN << >>
    ELSE IF Head(s) = c THEN erase_all_copy(Tail(s), c)
    ELSE <<Head(s)>> \o erase_all_copy(Tail(s), c)

\* boost::algorithm::split(tokens, s, is_any_of(seps)), token_compress_off:
\* the pieces between separators, empty pieces kept; cur is the piece begun
RECURSIVE algorithm_split(_, _, _)
algorithm_split(s, seps, cur) ==
    IF s = << >> THEN <<cur>>
    ELSE IF Head(s) \in seps THEN <<cur>> \o algorithm_split(Tail(s), seps, << >>)
    ELSE algorithm_split(Tail(s), seps, Append(cur, Head(s)))

\* the character classes _d and _w of boost::xpressive
DigitChars == {"0", "1", "2", "3", "4", "5", "6", "7", "8", "9"}
LetterChars ==
    {"a", "b", "c", "d", "e", "f", "g", "h", "i", "j", "k", "l", "m",
     "n", "o", "p", "q", "r", "s", "t", "u", "v", "w", "x", "y", "z",
     "A", "B", "C", "D", "E", "F", "G", "H", "I", "J", "K", "L", "M",
     "N", "O", "P", "Q", "R", "S", "T", "U", "V", "W", "X", "Y", "Z"}
WordChars == LetterChars \cup DigitChars \cup {"_"}

\* regex_match(t, +_d) and regex_match(t, +_w): the whole of t, one or more
rexNumber(t) == t # << >> /\ \A i \in DOMAIN t : t[i] \in DigitChars
rexName(t) == t # << >> /\ \A i \in DOMAIN t : t[i] \in WordChars

\* an unsigned number is kept as its decimal numeral without leading zeros
RECURSIVE Numeral(_)
Numeral(t) ==
    IF Len(t) > 1 /\ Head(t) = "0" THEN Numeral(Tail(t)) ELSE t

DigitValue(c) == CHOOSE d \in 0..9 : lexical_cast_string(d) = <<c>>

\* a < b for numerals
RECURSIVE NumeralLess(_, _)
NumeralLess(a, b) ==
    IF Len(a) # Len(b) THEN Len(a) < Len(b)
    ELSE IF a = << >> THEN FALSE
    ELSE IF Head(a) # Head(b) THEN DigitValue(Head(a)) < DigitValue(Head(b))
    ELSE NumeralLess(Tail(a), Tail(b))

\* std::numeric_limits<unsigned int>::max()
UIntMax == <<"4", "2", "9", "4", "9", "6", "7", "2", "9", "5">>

\* boost::lexical_cast<unsigned int>(t) for t of digits
lexical_cast_unsigned(t) ==
    IF NumeralLess(UIntMax, Numeral(t)) THEN Throw("bad_lexical_cast", << >>)
    ELSE Return(Numeral(t))

\* the tokens of a token_list
NameToken(t) == [type |-> "string", value |-> t]
IndexToken(v) == [type |-> "unsigned int", value |-> v]

\* the BOOST_FOREACH loop of util::split over the pieces, result so far
RECURSIVE split_loop(_, _, _)
split_loop(s, tokens, result_) ==
    IF tokens = << >> THEN Return(result_)
    ELSE LET t == Head(tokens)
         IN  IF t = << >>
                 THEN Throw("lookup_error",
                        <<"Subsequent path separators found in config path (%)", s>>)
             ELSE IF rexNumber(t)
                 THEN LET v == lexical_cast_unsigned(t)
                      IN  IF v.thrown # "none" THEN v
                          ELSE split_loop(s, Tail(tokens), Append(result_, IndexToken(v.value)))
             ELSE IF rexName(t)
                 THEN split_loop(s, Tail(tokens), Append(result_, NameToken(t)))
             ELSE Throw("lookup_error",
                        <<"Failed to parse config path (%) at token %", s, t>>)

\* the pieces util::split cuts a path into
Pieces(s) == algorithm_split(erase_all_copy(s, "]"), {".", "["}, << >>)

util_split(s) == split_loop(s, Pieces(s), << >>)

(***************************************************************************)
(* Access to the element tree (config_tree.hpp).  An operator whose call    *)
(* can read outside a list is a set of outcomes.                            *)
(***************************************************************************)
\* the result of as<T>(): a T holding v
Value(T, v) == [kind |-> "value", type |-> T, value |-> v]

\* the value of a numeral that fits the model's integers
RECURSIVE NumeralValue(_)
NumeralValue(t) ==
    IF t = << >> THEN 0
    ELSE 10 * NumeralValue(SubSeq(t, 1, Len(t) - 1)) + DigitValue(t[Len(t)])

\* std::numeric_limits<double>::max(), as a numeral
DoubleMax ==
    <<"1", "7", "9", "7", "6", "9", "3", "1", "3", "4", "8", "6", "2", "3",
      "1", "5", "7", "0", "8", "1", "4", "5", "2", "7", "4", "2", "3", "7",
      "3", "1", "7", "0", "4", "3", "5", "6", "7", "9", "8", "0", "7", "0",
      "5", "6", "7", "5", "2", "5", "8", "4", "4", "9", "9", "6", "5", "9",
      "8", "9", "1", "7", "4", "7", "6", "8", "0", "3", "1", "5", "7", "2",
      "6", "0", "7", "8", "0", "0", "2", "8", "5", "3", "8", "7", "6", "0",
      "5", "8", "9", "5", "5", "8", "6", "3", "2", "7", "6", "6", "8", "7",
      "8", "1", "7", "1", "5", "4", "0", "4", "5", "8", "9", "5", "3", "5",
      "1", "4", "3", "8", "2", "4", "6", "4", "2", "3", "4", "3", "2", "1",
      "3", "2", "6", "8", "8", "9", "4", "6", "4", "1", "8", "2", "7", "6",
      "8", "4", "6", "7", "5", "4", "6", "7", "0", "3", "5", "3", "7", "5",
      "1", "6", "9", "8", "6", "0", "4", "9", "9", "1", "0", "5", "7", "6",
      "5", "5", "1", "2", "8", "2", "0", "7", "6", "2", "4", "5", "4", "9",
      "0", "0", "9", "0", "3", "8", "9", "3", "2", "8", "9", "4", "4", "0",
      "7", "5", "8", "6", "8", "5", "0", "8", "4", "5", "5", "1", "3", "3",
      "9", "4", "2", "3", "0", "4", "5", "8", "3", "2", "3", "6", "9", "0",
      "3", "2", "2", "2", "9", "4", "8", "1", "6", "5", "8", "0", "8", "5",
      "5", "9", "3", "3", "2", "1", "2", "3", "3", "4", "8", "2", "7", "4",
      "7", "9", "7", "8", "2", "6", "2", "0", "4", "1", "4", "4", "7", "2",
      "3", "1", "6", "8", "7", "3", "8", "1", "7", "7", "1", "8", "0", "9",
      "1", "9", "2", "9", "9", "8", "8", "1", "2", "5", "0", "4", "0", "4",
      "0", "2", "6", "1", "8", "4", "1", "2", "4", "8", "5", "8", "3", "6",
      "8">>

\* std::numeric_limits<T>::max() of the arithmetic types asked for, as numerals
NumericMax ==
    [short |-> <<"3", "2", "7", "6", "7">>,
     long |-> <<"9", "2", "2", "3", "3", "7", "2", "0", "3", "6",
                "8", "5", "4", "7", "7", "5", "8", "0", "7">>,
     bool |-> <<"1">>,
     double |-> DoubleMax]

\* the arithmetic value an atom holds: bool counts 1 or 0
Arithmetic(a) == IF a.type = "bool" THEN (IF a.value THEN 1 ELSE 0) ELSE a.value

\* boost::numeric_cast<T>(v), v not negative
numeric_cast(T, v) ==
    IF NumeralLess(NumericMax[T], lexical_cast_string(v))
        THEN Throw("bad_numeric_cast", << >>)
        ELSE Return(Value(T, v))

\* boost::lexical_cast<T>(s) to an arithmetic T, s without a sign
lexical_cast_number(T, s) ==
    IF ~rexNumber(s) \/ NumeralLess(NumericMax[T], Numeral(s))
        THEN Throw("bad_lexical_cast", << >>)
        ELSE Return(Value(T, NumeralValue(Numeral(s))))

\* atom::as<T>(): atom_detail::visitor<T> applied to value_
atom_as(a, T) ==
    IF T = "string"
        THEN IF a.type = "string" THEN Return(Value(T, a.value))
             ELSE Return(Value(T, lexical_cast_string(Arithmetic(a))))
        ELSE IF a.type = "string" THEN lexical_cast_number(T, a.value)
             ELSE numeric_cast(T, Arithmetic(a))

NotAGroup == Throw("lookup_error", <<"Config setting is not a group">>)

as_group(e) == IF e.kind = "group" THEN Return(e) ELSE NotAGroup
as_list(e) == IF e.kind = "list" THEN Return(e) ELSE NotAGroup
as_atom(e) == IF e.kind = "atom" THEN Return(e) ELSE NotAGroup

group_get(g, key) ==
    IF key \in DOMAIN g.settings THEN Return(g.settings[key])
    ELSE Throw("lookup_error", <<"Element not found (%)", key>>)

\* What settings_[index] gives for an index that is not below size():
\* BOOST_ASSERT ends the process, and without it the read is of whatever
\* lies behind the vector's storage, taken as an element.
Terminated == Throw("terminated", << >>)
Garbage == {atom("long", 1), group(<< >>)}

\* list::get(index): boost::ptr_vector::operator[], the index a numeral
list_get(l, index) ==
    IF NumeralLess(index, lexical_cast_string(Len(l.items)))
        THEN {Return(l.items[NumeralValue(index) + 1])}
        ELSE {Terminated} \cup {Return(g) : g \in Garbage}

RECURSIVE recursive_lookup(_, _)

\* element::operator[](size_t index)
subscript_index(e, index) ==
    LET l == as_list(e)
    IN  IF l.thrown # "none" THEN {l} ELSE list_get(l.value, index)

\* element::operator[](const std::string& key)
subscript_key(e, key) ==
    IF \E i \in DOMAIN key : key[i] \in {".", "["}
        THEN LET tokens == util_split(key)
             IN  IF tokens.thrown # "none" THEN {tokens}
                 ELSE {IF r.thrown = "lookup_error"
                           THEN Throw("lookup_error", <<"Config setting not found (%)", key>>)
                           ELSE r : r \in recursive_lookup(e, tokens.value)}
        ELSE LET g == as_group(e)
             IN  IF g.thrown # "none" THEN {g} ELSE {group_get(g.value, key)}

\* element::recursive_lookup(e, tokens); an exception of a step ends the walk
recursive_lookup(e, tokens) ==
    IF tokens = << >> THEN {Return(e)}
    ELSE LET t == Head(tokens)
             next == IF t.type = "string" THEN subscript_key(e, t.value)
                     ELSE subscript_index(e, t.value)
         IN  UNION {IF n.thrown # "none" THEN {n}
                    ELSE recursive_lookup(n.value, Tail(tokens)) : n \in next}

\* element::as<T>()
element_as(e, T) ==
    LET a == as_atom(e)
    IN  IF a.thrown # "none" THEN a ELSE atom_as(a.value, T)

\* element::lookup<T>(path)
lookup(e, path, T) ==
    LET tokens == util_split(path)
    IN  IF tokens.thrown # "none" THEN {tokens}
        ELSE {LET r == IF n.thrown # "none" THEN n ELSE element_as(n.value, T)
              IN  IF r.thrown = "lookup_error"
                      THEN Throw("lookup_error", <<"Config setting not found (%)", path>>)
                      ELSE r :
              n \in recursive_lookup(e, tokens.value)}

\* element::lookup<T>(path, default_value)
lookup_default(e, path, T, default_value) ==
    {IF r.thrown = "lookup_error" THEN Return(default_value) ELSE r :
     r \in lookup(e, path, T)}

(***************************************************************************)
(* Calls on a loaded configuration: one call of a member of the element    *)
(* tree, or of util::split, on one of a few trees.                         *)
(***************************************************************************)
MaxPathChunks == 4
MaxSegments == 3
MaxIndex == 2

\* the first unsigned number that is not an unsigned int
UIntOver == <<"4", "2", "9", "4", "9", "6", "7", "2", "9", "6">>

\* paths put together from chunks, in any way
PathChunks ==
    {<<"a">>, <<"_", "b">>, <<"0">>, <<"1">>, <<"0", "0", "7">>, UIntMax, UIntOver,
     <<"-">>, <<".">>, <<"[">>, <<"]">>}

RECURSIVE ChunkPaths(_)
ChunkPaths(n) ==
    IF n = 0 THEN {<< >>}
    ELSE LET P == ChunkPaths(n - 1)
         IN  P \cup {p \o c : p \in P, c \in PathChunks}

\* paths written segment by segment: an identifier (Config.g ID), or a number
\* with the value it denotes, in brackets or after a dot
NameSegments ==
    {[kind |-> "name", text |-> t, value |-> t, bracket |-> FALSE] :
        t \in {<<"a">>, <<"_", "b">>, <<"a", "1">>}}
IndexSegments ==
    {[kind |-> "index", text |-> n.text, value |-> n.value, bracket |-> b] :
        n \in {[text |-> <<"0">>, value |-> <<"0">>],
               [text |-> <<"0", "0", "7">>, value |-> <<"7">>],
               [text |-> UIntMax, value |-> UIntMax],
               [text |-> UIntOver, value |-> UIntOver]},
        b \in BOOLEAN}

RECURSIVE SegmentLists(_)
SegmentLists(n) ==
    IF n = 1 THEN {<<g>> : g \in {h \in NameSegments \cup IndexSegments : ~h.bracket}}
    ELSE LET L == SegmentLists(n - 1)
         IN  L \cup {Append(l, g) : l \in {m \in L : Len(m) = n - 1},
                                    g \in NameSegments \cup IndexSegments}

RECURSIVE Render(_)
Render(segments) ==
    IF Len(segments) = 1 THEN segments[1].text
    ELSE LET g == segments[Len(segments)]
         IN  Render(SubSeq(segments, 1, Len(segments) - 1)) \o
                 (IF g.bracket THEN <<"[">> \o g.text \o <<"]">> ELSE <<".">> \o g.text)

WellFormedPaths == {Render(l) : l \in SegmentLists(MaxSegments)}

LookupPaths == ChunkPaths(MaxPathChunks) \cup WellFormedPaths

\* the configurations looked into
LookupTrees ==
    {group((<<"a">> :> list(<<atom("long", 1), atom("string", <<"x">>)>>)) @@
           (<<"_", "b">> :> group((<<"a">> :> atom("long", 32768)) @@
                                  (<<"_", "b">> :> atom("string", <<"7">>))))),
     group((<<"a">> :> atom("bool", TRUE)) @@
           (<<"_", "b">> :> list(<< >>)))}

LookupTypes == {"long", "short", "string"}
DefaultValue(T) == IF T = "string" THEN Value(T, <<"d">>) ELSE Value(T, 5)

\* an element and every element below it
RECURSIVE Elements(_)
Elements(e) ==
    {e} \cup
    (IF e.kind = "group" THEN UNION {Elements(e.settings[k]) : k \in DOMAIN e.settings}
     ELSE IF e.kind = "list" THEN UNION {Elements(e.items[i]) : i \in DOMAIN e.items}
     ELSE {})

TokenList(tokens) == [kind |-> "token_list", tokens |-> tokens]

\* cconfig::load has returned one of the trees
InitLookup ==
    /\ nodes = <<node("group", "none")>>
    /\ stack = <<1>>
    /\ pending = NULL
    /\ decl = <<NoDecl>>
    /\ pc = "ready"
    /\ elem \in LookupTrees
    /\ strict = FALSE
    /\ result = NoResult
    /\ call = NoCall
    /\ outcome = NoOutcome
    /\ history = << >>

\* util::split(path)
Split ==
    /\ pc = "ready"
    /\ \E path \in LookupPaths :
        /\ call' = Call("split", NoValue, path, "none", NoValue, << >>)
        /\ outcome' = LET r == util_split(path)
                      IN  IF r.thrown = "none" THEN Return(TokenList(r.value)) ELSE r
    /\ pc' = "returned"
    /\ UNCHANGED <<nodes, stack, pending, decl, elem, strict, result, history>>

\* root.lookup<T>(path)
Lookup ==
    /\ pc = "ready"
    /\ \E path \in LookupPaths, T \in LookupTypes :
        /\ call' = Call("lookup", elem, path, T, NoValue, << >>)
        /\ outcome' \in lookup(elem, path, T)
    /\ pc' = "returned"
    /\ UNCHANGED <<nodes, stack, pending, decl, elem, strict, result, history>>

\* root.lookup<T>(path, default_value)
LookupDefault ==
    /\ pc = "ready"
    /\ \E path \in LookupPaths, T \in LookupTypes :
        /\ call' = Call("lookup_default", elem, path, T, DefaultValue(T), << >>)
        /\ outcome' \in lookup_default(elem, path, T, DefaultValue(T))
    /\ pc' = "returned"
    /\ UNCHANGED <<nodes, stack, pending, decl, elem, strict, result, history>>

\* l.get(index) on a list l of the tree
Get ==
    /\ pc = "ready"
    /\ \E l \in {e \in Elements(elem) : e.kind = "list"}, i \in 0..MaxIndex :
        /\ call' = Call("get", l, << >>, "none", NoValue, lexical_cast_string(i))
        /\ outcome' \in list_get(l, lexical_cast_string(i))
    /\ pc' = "returned"
    /\ UNCHANGED <<nodes, stack, pending, decl, elem, strict, result, history>>

NextLookup == Split \/ Lookup \/ LookupDefault \/ Get

SpecLookup == InitLookup /\ [][NextLookup]_vars

(***************************************************************************)
(* Schema trees built through the node interface: nodes are constructed    *)
(* and attached with add_child in any order, as generate_schema() and a    *)
(* caller of schema::set do.                                               *)
(***************************************************************************)
MaxTreeNodes == 4

TreeNames == {<<"a">>, <<"b">>, <<"a", "_", "b">>}

\* the node at the end of n's parent links
RECURSIVE TopOf(_, _)
TopOf(ns, n) == IF ns[n].parent_ = NULL THEN n ELSE TopOf(ns, ns[n].parent_)

\* the nodes that p may take as a child: constructed, not the root, not yet
\* attached, and not the top of the tree p is in
Attachable(ns, p) ==
    {n \in DOMAIN ns : n # 1 /\ ns[n].parent_ = NULL /\ TopOf(ns, p) # n}

\* the root group exists
InitTree ==
    /\ nodes = <<node("group", "none")>>
    /\ stack = <<1>>
    /\ pending = NULL
    /\ decl = <<NoDecl>>
    /\ pc = "building"
    /\ elem = group(<< >>)
    /\ strict = FALSE
    /\ result = NoResult
    /\ call = NoCall
    /\ outcome = NoOutcome
    /\ history = << >>

\* new cconfig::schema::group(), list() or atom(type)
NewNode ==
    /\ pc = "building"
    /\ Len(nodes) < MaxTreeNodes
    /\ \E k \in {"group", "list", "atom"} :
        nodes' = Append(nodes, node(k, IF k = "atom" THEN "long" ELSE "none"))
    /\ UNCHANGED <<stack, pending, decl, pc, elem, strict, result, call, outcome, history>>

\* g->add_child(name, n, required)
GroupAddChild ==
    /\ pc = "building"
    /\ \E g \in {i \in DOMAIN nodes : nodes[i].kind = "group"} :
       \E n \in Attachable(nodes, g), name \in TreeNames, required \in BOOLEAN :
            nodes' = group_add_child(nodes, g, name, n, required)
    /\ UNCHANGED <<stack, pending, decl, pc, elem, strict, result, call, outcome, history>>

\* l->add_child(n)
ListAddChild ==
    /\ pc = "building"
    /\ \E l \in {i \in DOMAIN nodes : nodes[i].kind = "list"} :
       \E n \in Attachable(nodes, l) :
            nodes' = list_add_child(nodes, l, n)
    /\ UNCHANGED <<stack, pending, decl, pc, elem, strict, result, call, outcome, history>>

NextTree == NewNode \/ GroupAddChild \/ ListAddChild

SpecTree == InitTree /\ [][NextTree]_vars

(***************************************************************************)
(* Attribute calls on one schema node: add_attribute, get_attribute<T> and *)
(* has_attribute in any order.                                             *)
(***************************************************************************)
MaxAdds == 3

AttributeNames == {"min", "default"}
AttributeValues ==
    {[type |-> "long", value |-> 2], [type |-> "long", value |-> 3],
     [type |-> "bool", value |-> TRUE], [type |-> "double", value |-> 1],
     [type |-> "string", value |-> <<"x">>]}

\* a node without attributes exists
InitAttr ==
    /\ nodes = <<node("group", "none")>>
    /\ stack = <<1>>
    /\ pending = NULL
    /\ decl = <<NoDecl>>
    /\ pc = "attributes"
    /\ elem = group(<< >>)
    /\ strict = FALSE
    /\ result = NoResult
    /\ call = NoCall
    /\ outcome = NoOutcome
    /\ history = << >>

\* n->add_attribute(name, value)
AddAttribute ==
    /\ pc = "attributes"
    /\ Len(history) < MaxAdds
    /\ \E name \in AttributeNames, value \in AttributeValues :
        /\ nodes' = add_attribute(nodes, 1, name, value)
        /\ history' = Append(history, [name |-> name, value |-> value])
        /\ call' = Call("add_attribute", NoValue, name, value.type, NoValue, << >>)
    /\ outcome' = NoOutcome
    /\ UNCHANGED <<stack, pending, decl, pc, elem, strict, result>>

\* n->get_attribute<T>(name)
GetAttribute ==
    /\ pc = "attributes"
    /\ \E name \in AttributeNames, T \in AtomTypes :
        /\ call' = Call("get_attribute", NoValue, name, T, NoValue, << >>)
        /\ outcome' = LET r == get_attribute(nodes, 1, T, name)
                      IN  IF r.ok THEN Return(Value(T, r.value))
                          ELSE Throw("schema::exception", r.what)
    /\ UNCHANGED <<nodes, stack, pending, decl, pc, elem, strict, result, history>>

\* n->has_attribute(name)
HasAttribute ==
    /\ pc = "attributes"
    /\ \E name \in AttributeNames :
        /\ call' = Call("has_attribute", NoValue, name, "bool", NoValue, << >>)
        /\ outcome' = Return(Value("bool", has_attribute(nodes, 1, name)))
    /\ UNCHANGED <<nodes, stack, pending, decl, pc, elem, strict, result, history>>

NextAttr == AddAttribute \/ GetAttribute \/ HasAttribute

SpecAttr == InitAttr /\ [][NextAttr]_vars

(***************************************************************************)
(* The generators: a schema is parsed, with attributes of every type on    *)
(* every kind of node, and cconfig_stub_gen or generate_wrapper runs on    *)
(* it.                                                                     *)
(***************************************************************************)
MaxAttributes == 1

\* the attributes a schema file gives: ID '=' (double_ | long_ | bool_ | string_);
\* bool_ is lexical_cast<bool> of the text true or false, which throws
SchemaAttributes ==
    {[type |-> "long", value |-> 2], [type |-> "double", value |-> 1],
     [type |-> "string", value |-> <<"x">>]}

RECURSIVE Sum(_, _)
Sum(f, S) ==
    IF S = {} THEN 0
    ELSE LET x == CHOOSE y \in S : TRUE IN f[x] + Sum(f, S \ {x})

\* the number of attributes in the tree
AttributeCount(ns) == Sum([n \in DOMAIN ns |-> Cardinality(DOMAIN ns[n].attributes_)], DOMAIN ns)

\* attributeList[n]: after the ')' of a primitive type, before the '(' of an
\* array, group or list type
attributeList(name, value) ==
    /\ pc = "parsing"
    /\ AttributeCount(nodes) < MaxAttributes
    /\ \E n \in DOMAIN nodes :
        /\ IF pending # NULL THEN n = pending /\ nodes[n].kind = "atom"
           ELSE n = top /\ n # 1 /\ nodes[n].children_ = << >>
        /\ ~has_attribute(nodes, n, name)
        /\ nodes' = add_attribute(nodes, n, name, value)
    /\ UNCHANGED <<stack, pending, decl, pc, elem, strict, result, call, outcome, history>>

\* The text a generator writes, as the tokens of the configuration grammar
\* (Config.g) it consists of; white space is on the hidden channel.
Tok(t, text) == [t |-> t, text |-> text]
Punct(t) == Tok(t, << >>)
Text(tokens) == [kind |-> "text", tokens |-> tokens]

\* atom::generate_config_stub
atom_generate_config_stub(ns, n) ==
    IF ns[n].type_ = "long" THEN <<Tok("INT", <<"0">>)>>
    ELSE IF ns[n].type_ = "bool" THEN <<Tok("BOOLEAN", <<"f", "a", "l", "s", "e">>)>>
    ELSE IF ns[n].type_ = "double" THEN <<Tok("FLOAT", <<"0", ".", "0">>)>>
    ELSE IF ns[n].type_ = "string" THEN <<Tok("STRING", << >>)>>
    ELSE << >>

RECURSIVE generate_config_stub(_, _), group_stub_loop(_, _, _)

\* the loop of group::generate_config_stub and of schema::generate_config_stub
\* over the children: name = stub ;
group_stub_loop(ns, n, keys) ==
    IF keys = << >> THEN << >>
    ELSE <<Tok("ID", Head(keys)), Punct("=")>>
            \o generate_config_stub(ns, ns[n].children_[Head(keys)])
            \o <<Punct(";")>>
            \o group_stub_loop(ns, n, Tail(keys))

\* group::generate_config_stub
group_generate_config_stub(ns, n) ==
    <<Punct("{")>> \o group_stub_loop(ns, n, SortedKeys(DOMAIN ns[n].children_))
        \o <<Punct("}")>>

\* list::generate_config_stub: the stub of a child that is no atom is
\* computed and dropped
list_generate_config_stub(ns, n) ==
    LET it == ns[n].children_[1]
    IN  IF ns[it].kind = "atom"
            THEN <<Punct("[")>> \o generate_config_stub(ns, it) \o <<Punct("]")>>
            ELSE <<Punct("("), Punct(")")>>

\* node::generate_config_stub, dispatched on the dynamic type
generate_config_stub(ns, n) ==
    IF ns[n].kind = "group" THEN group_generate_config_stub(ns, n)
    ELSE IF ns[n].kind = "list" THEN list_generate_config_stub(ns, n)
    ELSE atom_generate_config_stub(ns, n)

\* schema::generate_config_stub(outputfile): what is written to the file
schema_generate_config_stub(ns) ==
    group_stub_loop(ns, 1, SortedKeys(DOMAIN ns[1].children_))

\* cconfig_stub_gen: s.load(filename); s.generate_config_stub(output_file)
GenerateConfigStub ==
    /\ pc = "loaded"
    /\ call' = Call("generate_config_stub", NoValue, << >>, "none", NoValue, << >>)
    /\ outcome' = Return(Text(schema_generate_config_stub(nodes)))
    /\ pc' = "stub"
    /\ UNCHANGED <<nodes, stack, pending, decl, elem, strict, result, history>>

(***************************************************************************)
(* The configuration parser (Config.g) on a token sequence.  A rule        *)
(* returns what it built and the tokens left, or how it failed.            *)
(***************************************************************************)
Parsed(value, rest) == [err |-> "none", value |-> value, rest |-> rest]
Failed(err) == [err |-> err, value |-> NoValue, rest |-> << >>]

Next1(toks, t) == toks # << >> /\ Head(toks).t = t

\* the value of a FLOAT text with nothing but zeros after the point
lexical_cast_double(text) ==
    NumeralValue(SubSeq(text, 1, (CHOOSE i \in DOMAIN text : text[i] = ".") - 1))

\* float_, int_, bool_, string_: new cconfig::atom(boost::lexical_cast<T>(text));
\* lexical_cast<bool> reads 0 and 1 only
parse_atom(toks) ==
    IF Next1(toks, "FLOAT")
        THEN Parsed(atom("double", lexical_cast_double(Head(toks).text)), Tail(toks))
    ELSE IF Next1(toks, "INT")
        THEN Parsed(atom("long", NumeralValue(Head(toks).text)), Tail(toks))
    ELSE IF Next1(toks, "BOOLEAN") THEN Failed("bad_lexical_cast")
    ELSE IF Next1(toks, "STRING") THEN Parsed(atom("string", Head(toks).text), Tail(toks))
    ELSE Failed("syntax")

AtomTokens == {"FLOAT", "INT", "BOOLEAN", "STRING"}

RECURSIVE parse_definitions(_, _, _), parse_group(_), parse_list(_),
          parse_elements(_, _, _), parse_element(_), parse_array(_)

\* group: '{' definition* '}'
parse_group(toks) ==
    IF ~Next1(toks, "{") THEN Failed("syntax")
    ELSE parse_definitions(Tail(toks), << >>, "}")

\* array: '[' (body of atoms of one type)? ']'
parse_array(toks) ==
    IF ~Next1(toks, "[") THEN Failed("syntax")
    ELSE IF Next1(Tail(toks), "]") THEN Parsed(list(<< >>), Tail(Tail(toks)))
    ELSE parse_elements(Tail(toks), << >>, "]")

\* list: '(' listBody? ')'
parse_list(toks) ==
    IF ~Next1(toks, "(") THEN Failed("syntax")
    ELSE IF Next1(Tail(toks), ")") THEN Parsed(list(<< >>), Tail(Tail(toks)))
    ELSE parse_elements(Tail(toks), << >>, ")")

\* listElement: group | list | array | atom
parse_element(toks) ==
    IF Next1(toks, "{") THEN parse_group(toks)
    ELSE IF Next1(toks, "(") THEN parse_list(toks)
    ELSE IF Next1(toks, "[") THEN parse_array(toks)
    ELSE parse_atom(toks)

\* listBody and the array bodies: element (',' element)* up to the closing
\* token; the elements of an array are atoms of the type of the first
parse_elements(toks, items, close) ==
    LET e == IF close = "]" THEN parse_atom(toks) ELSE parse_element(toks)
    IN  IF e.err # "none" THEN e
        ELSE IF close = "]" /\ items # << >> /\ e.value.type # items[1].type
            THEN Failed("syntax")
        ELSE IF Next1(e.rest, ",")
            THEN parse_elements(Tail(e.rest), Append(items, e.value), close)
        ELSE IF Next1(e.rest, close)
            THEN Parsed(list(Append(items, e.value)), Tail(e.rest))
        ELSE Failed("syntax")

\* definition*: ID group | ID '=' (list | array | atom) ';', up to close;
\* ptr_map::insert keeps the entry a key already has
parse_definitions(toks, settings, close) ==
    IF toks = << >>
        THEN IF close = "EOF" THEN Parsed(group(settings), << >>) ELSE Failed("syntax")
    ELSE IF Next1(toks, close) THEN Parsed(group(settings), Tail(toks))
    ELSE IF ~Next1(toks, "ID") THEN Failed("syntax")
    ELSE LET key == Head(toks).text
             after == Tail(toks)
             v == IF Next1(after, "{") THEN parse_group(after)
                  ELSE IF ~Next1(after, "=") THEN Failed("syntax")
                  ELSE LET x == IF Next1(Tail(after), "(") THEN parse_list(Tail(after))
                                ELSE IF Next1(Tail(after), "[") THEN parse_array(Tail(after))
                                ELSE parse_atom(Tail(after))
                       IN  IF x.err # "none" THEN x
                           ELSE IF Next1(x.rest, ";") THEN Parsed(x.value, Tail(x.rest))
                           ELSE Failed("syntax")
         IN  IF v.err # "none" THEN v
             ELSE parse_definitions(v.rest,
                        IF key \in DOMAIN settings THEN settings
                        ELSE (key :> v.value) @@ settings,
                        close)

\* file: definition* EOF
parse_file(toks) == parse_definitions(toks, << >>, "EOF")

(***************************************************************************)
(* The tree builder: the statements of the generated generate_schema().    *)
(***************************************************************************)
\* attribute_visitor: the initialization string of a long, bool, double or
\* string attribute; a string is written between quotes, without a cast
attribute_visitor(x) ==
    IF x.type = "long" THEN [cast |-> "long", text |-> lexical_cast_string(x.value)]
    ELSE IF x.type = "bool"
        THEN [cast |-> "bool",
              text |-> IF x.value THEN <<"t", "r", "u", "e">>
                       ELSE <<"f", "a", "l", "s", "e">>]
    ELSE IF x.type = "double"
        THEN [cast |-> "double", text |-> lexical_cast_string(x.value)]
    ELSE [cast |-> "none", text |-> x.value]

\* iteration order of the attribute map (std::map<std::string, ...>)
AttributeOrder == <<"default", "min">>

\* the statements the builder writes
NewStatement(var, kind, type) == [op |-> "new", var |-> var, kind |-> kind, type |-> type]
AddAttributeStatement(var, name, literal) ==
    [op |-> "add_attribute", var |-> var, name |-> name, literal |-> literal]
GroupAddChildStatement(var, name, child, required) ==
    [op |-> "group::add_child", var |-> var, name |-> name, child |-> child,
     required |-> required]
ListAddChildStatement(var, child) ==
    [op |-> "list::add_child", var |-> var, child |-> child]

\* node::generate_common_tree_initialization: one add_attribute per attribute
RECURSIVE common_tree_loop(_, _, _, _)
common_tree_loop(ns, n, unique_id, i) ==
    IF i > Len(AttributeOrder) THEN << >>
    ELSE (IF AttributeOrder[i] \in DOMAIN ns[n].attributes_
            THEN <<AddAttributeStatement(unique_id, AttributeOrder[i],
                        attribute_visitor(ns[n].attributes_[AttributeOrder[i]]))>>
            ELSE << >>)
         \o common_tree_loop(ns, n, unique_id, i + 1)

generate_common_tree_initialization(ns, n, unique_id) ==
    common_tree_loop(ns, n, unique_id, 1)

\* the statements written and the value the counter unique_id (an int&) is
\* left with
Emitted(s, unique_id) == [s |-> s, unique_id |-> unique_id]

RECURSIVE generate_tree_builder(_, _, _), group_tree_loop(_, _, _, _, _),
          list_tree_loop(_, _, _, _, _)

\* the loop of group::generate_tree_builder: the child under ++unique_id,
\* then varname->add_child(name, childvarname, required_)
group_tree_loop(ns, n, var, keys, b) ==
    IF keys = << >> THEN b
    ELSE LET it == ns[n].children_[Head(keys)]
             child == generate_tree_builder(ns, it, b.unique_id + 1)
         IN  group_tree_loop(ns, n, var, Tail(keys),
                Emitted(b.s \o child.s
                        \o <<GroupAddChildStatement(var, Head(keys), b.unique_id + 1,
                                                    ns[it].required_)>>,
                      child.unique_id))

\* the loop of list::generate_tree_builder
list_tree_loop(ns, n, var, i, b) ==
    IF i > Len(ns[n].children_) THEN b
    ELSE LET child == generate_tree_builder(ns, ns[n].children_[i], b.unique_id + 1)
         IN  list_tree_loop(ns, n, var, i + 1,
                Emitted(b.s \o child.s \o <<ListAddChildStatement(var, b.unique_id + 1)>>,
                      child.unique_id))

\* group::, list:: and atom::generate_tree_builder(unique_id, indent)
generate_tree_builder(ns, n, unique_id) ==
    LET start == Emitted(<<NewStatement(unique_id, ns[n].kind, ns[n].type_)>>
                            \o generate_common_tree_initialization(ns, n, unique_id),
                       unique_id)
    IN  IF ns[n].kind = "group"
            THEN group_tree_loop(ns, n, unique_id,
                                 SortedKeys(DOMAIN ns[n].children_), start)
        ELSE IF ns[n].kind = "list" THEN list_tree_loop(ns, n, unique_id, 1, start)
        ELSE start

\* the body of the generated generate_schema(): unique_id = 0, the builder
\* of the root, s->set(var0)
generate_schema_body(ns) == generate_tree_builder(ns, 1, 0).s

\* the attribute_value_type a literal of the generated code constructs:
\* a string literal is a const char array, which converts to bool by a
\* standard conversion and to std::string by a user-defined one, so the
\* variant<long, bool, double, std::string> holds bool true
Literal(l) ==
    IF l.cast = "long" THEN [type |-> "long", value |-> NumeralValue(l.text)]
    ELSE IF l.cast = "bool" THEN [type |-> "bool", value |-> l.text = <<"t", "r", "u", "e">>]
    ELSE IF l.cast = "double" THEN [type |-> "double", value |-> NumeralValue(l.text)]
    ELSE [type |-> "bool", value |-> TRUE]

\* running the statements in order: env maps a variable to the node it
\* points to
RECURSIVE Execute(_, _, _)
Execute(stmts, ns, env) ==
    IF stmts = << >> THEN ns
    ELSE LET st == Head(stmts)
         IN  IF st.op = "new"
                 THEN Execute(Tail(stmts), Append(ns, node(st.kind, st.type)),
                              (st.var :> Len(ns) + 1) @@ env)
             ELSE IF st.op = "add_attribute"
                 THEN Execute(Tail(stmts),
                              add_attribute(ns, env[st.var], st.name, Literal(st.literal)),
                              env)
             ELSE IF st.op = "group::add_child"
                 THEN Execute(Tail(stmts),
                              group_add_child(ns, env[st.var], st.name, env[st.child],
                                              st.required),
                              env)
             ELSE Execute(Tail(stmts), list_add_child(ns, env[st.var], env[st.child]), env)

\* the schema the generated generate_schema() returns; its root is node 1
generate_schema(stmts) == Execute(stmts, << >>, << >>)

(***************************************************************************)
(* The declarations: the structs and typedefs of the generated header.     *)
(***************************************************************************)
GroupPrefix == <<"g", "r", "o", "u", "p">>
ListPrefix == <<"l", "i", "s", "t">>
ConfigName == <<"C", "o", "n", "f", "i", "g">>

\* atom::c_type_string, and the type atom::generate_definition writes
c_type_string(type) ==
    IF type = "string" THEN <<"s", "t", "d", ":", ":", "s", "t", "r", "i", "n", "g">>
    ELSE IF type = "long" THEN <<"l", "o", "n", "g">>
    ELSE IF type = "bool" THEN <<"b", "o", "o", "l">>
    ELSE <<"d", "o", "u", "b", "l", "e">>

\* group::, list::, atom::generate_definition: the type and the name of the
\* field
generate_definition(ns, n) ==
    [type |-> IF ns[n].kind = "group" THEN GroupPrefix \o uri_safe(ns, n)
              ELSE IF ns[n].kind = "list" THEN ListPrefix \o uri_safe(ns, n)
              ELSE c_type_string(ns[n].type_),
     name |-> ns[n].name_]

\* the initializer group::generate_declaration writes for an atom child: the
\* default attribute read as the atom's type, or 0L, false, 0.0, nothing
initialization(ns, a, key) ==
    IF has_attribute(ns, a, "default")
        THEN LET d == get_attribute(ns, a, ns[a].type_, "default")
             IN  IF ~d.ok THEN Throw("schema::exception", d.what)
                 ELSE Return([name |-> key,
                              value |-> IF ns[a].type_ = "long"
                                            THEN lexical_cast_string(d.value) \o <<"L">>
                                        ELSE IF ns[a].type_ = "double"
                                            THEN lexical_cast_string(d.value)
                                        ELSE IF ns[a].type_ = "bool"
                                            THEN (IF d.value THEN <<"t", "r", "u", "e">>
                                                  ELSE <<"f", "a", "l", "s", "e">>)
                                        ELSE <<"\"">> \o d.value \o <<"\"">>])
    ELSE Return([name |-> key,
                 value |-> IF ns[a].type_ = "long" THEN <<"0", "L">>
                           ELSE IF ns[a].type_ = "bool" THEN <<"f", "a", "l", "s", "e">>
                           ELSE IF ns[a].type_ = "double" THEN <<"0", ".", "0">>
                           ELSE << >>])

Struct(name, fields, initializations) ==
    [decl |-> "struct", name |-> name, fields |-> fields,
     initializations |-> initializations]
Typedef(name, element) == [decl |-> "typedef", name |-> name, element |-> element]
\* an exception leaving generate_declaration at this point
Thrown(t) == [decl |-> "throw", name |-> << >>, thrown |-> t]

RECURSIVE generate_declaration(_, _), children_declarations(_, _, _)

\* the first loop of group::generate_declaration
children_declarations(ns, n, keys) ==
    IF keys = << >> THEN << >>
    ELSE generate_declaration(ns, ns[n].children_[Head(keys)])
            \o children_declarations(ns, n, Tail(keys))

\* group::generate_declaration: nothing for a group without children; else
\* the declarations of the children, then struct Config or struct group<uri>
group_generate_declaration(ns, n) ==
    LET keys == SortedKeys(DOMAIN ns[n].children_)
        atoms == SelectSeq(keys, LAMBDA k : ns[ns[n].children_[k]].kind = "atom")
        inits == [i \in DOMAIN atoms |-> initialization(ns, ns[n].children_[atoms[i]], atoms[i])]
        failed == {i \in DOMAIN inits : inits[i].thrown # "none"}
    IN  IF keys = << >> THEN << >>
        ELSE children_declarations(ns, n, keys)
             \o <<IF failed # {}
                    THEN Thrown(inits[CHOOSE i \in failed : \A j \in failed : i <= j])
                    ELSE Struct(IF ns[n].parent_ = NULL THEN ConfigName
                                ELSE GroupPrefix \o uri_safe(ns, n),
                                [i \in DOMAIN keys |->
                                    generate_definition(ns, ns[n].children_[keys[i]])],
                                [i \in DOMAIN inits |-> inits[i].value])>>

\* list::generate_declaration: the declaration of the first child, then the
\* typedef of a vector; the test for a list child asks for a group again
list_generate_declaration(ns, n) ==
    IF ns[n].children_ = << >> THEN << >>
    ELSE LET it == ns[n].children_[1]
         IN  generate_declaration(ns, it)
             \o <<Typedef(ListPrefix \o uri_safe(ns, n),
                          IF ns[it].kind = "group" THEN GroupPrefix \o uri_safe(ns, it)
                          ELSE IF ns[it].kind = "group" THEN ListPrefix \o uri_safe(ns, it)
                          ELSE IF ns[it].kind = "atom" THEN c_type_string(ns[it].type_)
                          ELSE << >>)>>

\* node::generate_declaration (virtual); an atom declares nothing
generate_declaration(ns, n) ==
    IF ns[n].kind = "group" THEN group_generate_declaration(ns, n)
    ELSE IF ns[n].kind = "list" THEN list_generate_declaration(ns, n)
    ELSE << >>

(***************************************************************************)
(* The extraction functions of the generated source file.                  *)
(***************************************************************************)
GeneratePrefix == <<"g", "e", "n", "e", "r", "a", "t", "e", "_">>

\* the helper generate_string, generate_long, generate_bool, generate_double
HelperName(T) ==
    GeneratePrefix \o (IF T = "string" THEN <<"s", "t", "r", "i", "n", "g">>
                       ELSE c_type_string(T))

\* group::, list::, atom::generate_initialization: the function called on
\* (child_element, child_node)
generate_initialization(ns, n) ==
    IF ns[n].kind = "group" THEN GeneratePrefix \o GroupPrefix \o uri_safe(ns, n)
    ELSE IF ns[n].kind = "list" THEN GeneratePrefix \o ListPrefix \o uri_safe(ns, n)
    ELSE HelperName(ns[n].type_)

\* one block of a group's function: child_element = e["key"] and
\* r.key = init(child_element, child_node), inside try/catch(lookup_error&)
\* when guarded
Fetch(key, guarded, init) == [key |-> key, guarded |-> guarded, init |-> init]

GroupFunction(name, returns, fetches) ==
    [function |-> name, kind |-> "group", returns |-> returns, fetches |-> fetches]
ListFunction(name, returns, init) ==
    [function |-> name, kind |-> "list", returns |-> returns, init |-> init]

\* a group function that puts the guard around the required children
group_function_guarding_required(ns, n) ==
    LET keys == SortedKeys(DOMAIN ns[n].children_)
    IN  GroupFunction(
            IF ns[n].parent_ = NULL THEN GeneratePrefix \o ConfigName
            ELSE GeneratePrefix \o GroupPrefix \o uri_safe(ns, n),
            IF ns[n].parent_ = NULL THEN ConfigName ELSE GroupPrefix \o uri_safe(ns, n),
            [i \in DOMAIN keys |->
                LET it == ns[n].children_[keys[i]]
                IN  Fetch(keys[i], ns[it].required_, generate_initialization(ns, it))])

\* a group function that fetches every child without a guard
group_function_unguarded(ns, n) ==
    LET keys == SortedKeys(DOMAIN ns[n].children_)
    IN  GroupFunction(
            IF ns[n].parent_ = NULL THEN GeneratePrefix \o ConfigName
            ELSE GeneratePrefix \o GroupPrefix \o uri_safe(ns, n),
            IF ns[n].parent_ = NULL THEN ConfigName ELSE GroupPrefix \o uri_safe(ns, n),
            [i \in DOMAIN keys |->
                LET it == ns[n].children_[keys[i]]
                IN  Fetch(keys[i], FALSE, generate_initialization(ns, it))])

\* the function group::generate_function writes for the group itself: the
\* fetch of a child is guarded when the child's required_ is false
group_function(ns, n) ==
    LET keys == SortedKeys(DOMAIN ns[n].children_)
    IN  GroupFunction(
            IF ns[n].parent_ = NULL THEN GeneratePrefix \o ConfigName
            ELSE GeneratePrefix \o GroupPrefix \o uri_safe(ns, n),
            IF ns[n].parent_ = NULL THEN ConfigName ELSE GroupPrefix \o uri_safe(ns, n),
            [i \in DOMAIN keys |->
                LET it == ns[n].children_[keys[i]]
                IN  Fetch(keys[i], ~ns[it].required_, generate_initialization(ns, it))])

RECURSIVE generate_function(_, _), children_functions(_, _, _)

\* the first loop of group::generate_function
children_functions(ns, n, keys) ==
    IF keys = << >> THEN << >>
    ELSE generate_function(ns, ns[n].children_[Head(keys)])
            \o children_functions(ns, n, Tail(keys))

\* group::, list::, atom::generate_function: the functions of the children
\* first; a list's function is written for children_.front()
generate_function(ns, n) ==
    IF ns[n].kind = "group"
        THEN children_functions(ns, n, SortedKeys(DOMAIN ns[n].children_))
                \o <<group_function(ns, n)>>
    ELSE IF ns[n].kind = "list"
        THEN LET spec == ns[n].children_[1]
             IN  generate_function(ns, spec)
                    \o <<ListFunction(GeneratePrefix \o ListPrefix \o uri_safe(ns, n),
                                      ListPrefix \o uri_safe(ns, n),
                                      generate_initialization(ns, spec))>>
    ELSE << >>

(***************************************************************************)
(* Running the generated code.                                             *)
(***************************************************************************)
\* what the generated structs hold: a struct, a std::vector, a field left
\* as its constructor's initializer wrote it
StructValue(fields) == [kind |-> "struct", fields |-> fields]
VectorValue(items) == [kind |-> "vector", items |-> items]
Initialized(text) == [kind |-> "initialized", text |-> text]

PrimitiveTypes == {c_type_string(T) : T \in AtomTypes}

\* the default constructor of a declared type; a struct never declared (a
\* group without children) has no fields
RECURSIVE Construct(_, _)
Construct(decls, name) ==
    LET found == {i \in DOMAIN decls : decls[i].name = name}
    IN  IF found = {} THEN StructValue(<< >>)
        ELSE LET d == decls[CHOOSE i \in found : \A j \in found : i <= j]
             IN  IF d.decl = "typedef" THEN VectorValue(<< >>)
                 ELSE StructValue(
                        [k \in {d.fields[i].name : i \in DOMAIN d.fields} |->
                            LET f == d.fields[CHOOSE i \in DOMAIN d.fields :
                                                d.fields[i].name = k]
                            IN  IF f.type \in PrimitiveTypes
                                    THEN Initialized(
                                            d.initializations[CHOOSE i \in DOMAIN d.initializations :
                                                d.initializations[i].name = k].value)
                                    ELSE Construct(decls, f.type)])

\* e["key"] for an identifier: element::operator[](const std::string&)
subscript_name(e, key) == CHOOSE r \in subscript_key(e, key) : TRUE

RECURSIVE Run(_, _, _), RunFetches(_, _, _, _, _), RunItems(_, _, _, _)

\* the blocks of a group function in order, on the struct r
RunFetches(w, fetches, e, i, r) ==
    IF i > Len(fetches) THEN Return(StructValue(r))
    ELSE LET f == fetches[i]
             child_element == subscript_name(e, f.key)
             o == IF child_element.thrown # "none" THEN child_element
                  ELSE Run(w, f.init, child_element.value)
         IN  IF o.thrown = "none"
                 THEN RunFetches(w, fetches, e, i + 1, (f.key :> o.value) @@ r)
             ELSE IF f.guarded /\ o.thrown = "lookup_error"
                 THEN RunFetches(w, fetches, e, i + 1, r)
             ELSE o

\* the loop of a list function: r.push_back(init(*it, child_node))
RunItems(w, init, items, r) ==
    IF items = << >> THEN Return(VectorValue(r))
    ELSE LET o == Run(w, init, Head(items))
         IN  IF o.thrown # "none" THEN o
             ELSE RunItems(w, init, Tail(items), Append(r, o.value))

\* a call name(e, n) of a function of the generated source file
Run(w, name, e) ==
    IF \E T \in AtomTypes : name = HelperName(T)
        THEN element_as(e, CHOOSE T \in AtomTypes : name = HelperName(T))
    ELSE LET found == {i \in DOMAIN w.functions : w.functions[i].function = name}
             f == w.functions[CHOOSE i \in found : \A j \in found : i <= j]
         IN  IF f.kind = "list"
                 THEN LET l == as_list(e)
                      IN  IF l.thrown # "none" THEN l
                          ELSE RunItems(w, f.init, l.value.items, << >>)
             ELSE RunFetches(w, f.fetches, e, 1,
                             Construct(w.declaration, f.returns).fields)

\* generate_Config(f->root(), s->root())
generate_Config(w, e) == Run(w, GeneratePrefix \o ConfigName, e)

\* schema::generate_wrapper(outputfile): the generated code
Wrapper(ns) ==
    [kind |-> "wrapper",
     declaration |-> generate_declaration(ns, 1),
     functions |-> generate_function(ns, 1),
     builder |-> generate_schema_body(ns)]

\* the exception that leaves generate_wrapper, if one does
WrapperThrows(ns) ==
    LET d == generate_declaration(ns, 1)
        failed == {i \in DOMAIN d : d[i].decl = "throw"}
    IN  IF failed = {} THEN NoOutcome
        ELSE d[CHOOSE i \in failed : \A j \in failed : i <= j].thrown

GenerateWrapper ==
    /\ pc = "loaded"
    /\ call' = Call("generate_wrapper", NoValue, << >>, "none", NoValue, << >>)
    /\ IF WrapperThrows(nodes) # NoOutcome
            THEN outcome' = WrapperThrows(nodes) /\ pc' = "failed"
            ELSE outcome' = Return(Wrapper(nodes)) /\ pc' = "generated"
    /\ UNCHANGED <<nodes, stack, pending, decl, elem, strict, result, history>>

(***************************************************************************)
(* The generated load_config(config_filename).                             *)
(***************************************************************************)
\* the schemas load_config is run for: nodes and attributes together
MaxLoadSize == 4

RootLevel == <<"r", "o", "o", "t", " ", "l", "e", "v", "e", "l">>

\* a text that names the location as validate reported it
validation_error_text_uri(r) ==
    <<"Validation failed at %: %", r.error_uri, r.error_message>>

\* "Validation failed at " + ((r.error_uri == "/") ? "root level" :
\* r.error_uri) + ": " + r.error_message
validation_error_text(r) ==
    <<"Validation failed at %: %",
      IF r.error_uri = <<"/">> THEN RootLevel ELSE r.error_uri,
      r.error_message>>

\* f->load(config_filename); s = generate_schema(); r = s->validate(*f, true);
\* an exception of validate leaves load_config
load_config_validate ==
    /\ pc = "generated"
    /\ Len(nodes) + AttributeCount(nodes) <= MaxLoadSize
    /\ \E e \in Configs :
        LET s == generate_schema(outcome.value.builder)
            r == schema_validate(s, e, TRUE)
        IN  /\ elem' = e
            /\ strict' = TRUE
            /\ result' = r
            /\ call' = Call("load_config", e, << >>, "none", NoValue, << >>)
            /\ IF r.thrown # "none"
                   THEN /\ outcome' = Throw(r.thrown, r.error_message)
                        /\ pc' = "returned"
                   ELSE /\ outcome' = outcome
                        /\ pc' = "checked"
    /\ UNCHANGED <<nodes, stack, pending, decl, history>>

\* if(!r.valid) throw validation_error(...)
load_config_throw ==
    /\ pc = "checked"
    /\ ~result.valid
    /\ outcome' = Throw("validation_error", validation_error_text(result))
    /\ pc' = "returned"
    /\ UNCHANGED <<nodes, stack, pending, decl, elem, strict, result, call, history>>

\* Config c = generate_Config(f->root(), s->root()); c.file_ = f; delete s;
\* return c
load_config_extract ==
    /\ pc = "checked"
    /\ result.valid
    /\ call' = Call("generate_Config", elem, << >>, "none", NoValue, << >>)
    /\ outcome' = generate_Config(outcome.value, elem)
    /\ pc' = "returned"
    /\ UNCHANGED <<nodes, stack, pending, decl, elem, strict, result, history>>

NextGen ==
    \/ \E type \in AtomTypes : primitiveType(type)
    \/ groupType
    \/ listType
    \/ \E name \in AttributeNames, value \in SchemaAttributes : attributeList(name, value)
    \/ \E name \in Names, r \in BOOLEAN : variableDefinition(name, r)
    \/ groupTypeEnd
    \/ listTypeEnd
    \/ load
    \/ GenerateConfigStub
    \/ GenerateWrapper
    \/ load_config_validate
    \/ load_config_throw
    \/ load_config_extract

SpecGen == Init /\ [][NextGen]_vars

(***************************************************************************)
(* Walking a schema tree and a configuration together.                     *)
(***************************************************************************)
\* a step of a path into a configuration: a key of a group, an index of a list
KeyStep(k) == [key |-> k, index |-> 0]
IndexStep(i) == [key |-> << >>, index |-> i]

RECURSIVE At(_, _)
At(e, path) ==
    IF path = << >> THEN e
    ELSE IF Head(path).index = 0 THEN At(e.settings[Head(path).key], Tail(path))
    ELSE At(e.items[Head(path).index], Tail(path))

RECURSIVE Put(_, _, _)
Put(e, path, v) ==
    IF path = << >> THEN v
    ELSE IF Head(path).index = 0
        THEN [e EXCEPT !.settings[Head(path).key] = Put(@, Tail(path), v)]
    ELSE [e EXCEPT !.items[Head(path).index] = Put(@, Tail(path), v)]

\* every pair of a schema node and the place of the configuration element it
\* is compared with: declared keys that are present, and all list elements
RECURSIVE Sites(_, _, _, _)
Sites(ns, n, e, path) ==
    {[node |-> n, path |-> path]} \cup
    (IF ns[n].kind = "group" /\ e.kind = "group"
        THEN UNION {Sites(ns, ns[n].children_[k], e.settings[k], Append(path, KeyStep(k))) :
                        k \in DOMAIN ns[n].children_ \cap DOMAIN e.settings}
     ELSE IF ns[n].kind = "list" /\ e.kind = "list"
        THEN UNION {Sites(ns, ns[n].children_[1], e.items[i], Append(path, IndexStep(i))) :
                        i \in DOMAIN e.items}
     ELSE {})

\* the places where a group schema meets a group element
GroupSites(e) ==
    {st \in Sites(nodes, 1, e, << >>) :
        nodes[st.node].kind = "group" /\ At(e, st.path).kind = "group"}

\* the configuration with key k of the group at path removed, or bound to v
WithoutKey(e, path, k) ==
    LET g == At(e, path)
    IN  Put(e, path, group([x \in DOMAIN g.settings \ {k} |-> g.settings[x]]))

WithKey(e, path, k, v) ==
    LET g == At(e, path)
    IN  Put(e, path, group((k :> v) @@ g.settings))

\* the outcome of validating the element at a site against the site's node
SiteResult(st) ==
    IF st.path = << >> THEN result
    ELSE validate(nodes, st.node, At(elem, st.path), strict)

Returned(r) == r.thrown = "none"
ReturnedValid(r) == r.thrown = "none" /\ r.valid
ReturnedInvalid(r) == r.thrown = "none" /\ ~r.valid

\* the element exactly matches the schema node: the declared kind, the
\* declared primitive type, every required child present, no undeclared key
RECURSIVE Matches(_, _, _)
Matches(ns, n, e) ==
    IF ns[n].kind = "atom" THEN e.kind = "atom" /\ e.type = ns[n].type_
    ELSE IF ns[n].kind = "list"
        THEN /\ e.kind = "list"
             /\ \A i \in DOMAIN e.items : Matches(ns, ns[n].children_[1], e.items[i])
    ELSE /\ e.kind = "group"
         /\ DOMAIN e.settings \subseteq DOMAIN ns[n].children_
         /\ \A k \in DOMAIN ns[n].children_ :
                IF k \in DOMAIN e.settings THEN Matches(ns, ns[n].children_[k], e.settings[k])
                ELSE ~ns[ns[n].children_[k]].required_

MissingText == "Missing required attribute '%'"
StrictText ==
    "Attribute '%' not found in schema (strict validation). This might possibly be a typo."

(***************************************************************************)
(* Properties of the validator.                                            *)
(***************************************************************************)
\* the lists below key k of the root that a schema "k min=2 (list) {...}"
\* is validated against, all elements matching the list's child schema
MinTwoLists ==
    {k \in DOMAIN nodes[1].children_ \cap DOMAIN elem.settings :
        LET l == nodes[1].children_[k]
        IN  /\ nodes[l].kind = "list"
            /\ has_attribute(nodes, l, "min")
            /\ nodes[l].attributes_["min"].value = 2
            /\ \A n \in DOMAIN nodes : n # l => ~has_attribute(nodes, n, "min")
            /\ elem.settings[k].kind = "list"
            /\ Matches(nodes, 1, elem)}

\* C1: a list schema with min = 2 rejects a one-element list and accepts a
\* two-element list whose elements validate
C1_ListMin ==
    pc = "validated" =>
        \A k \in MinTwoLists :
            /\ Len(elem.settings[k].items) = 1 => ReturnedInvalid(result)
            /\ Len(elem.settings[k].items) = 2 => ReturnedValid(result)

\* a required leaf of kind atom that is absent from the group at a site of
\* the configuration, which matches the schema once the leaf is put back
MatchingAtom(type) == CHOOSE a \in AtomElems : a.type = type

RemovedLeaves(e) ==
    {x \in [site : GroupSites(e), key : Names] :
        /\ x.key \in DOMAIN nodes[x.site.node].children_
        /\ x.key \notin DOMAIN At(e, x.site.path).settings
        /\ LET leaf == nodes[x.site.node].children_[x.key]
           IN  /\ nodes[leaf].kind = "atom"
               /\ nodes[leaf].required_
               /\ Matches(nodes, 1,
                    WithKey(e, x.site.path, x.key, MatchingAtom(nodes[leaf].type_)))}

RECURSIVE DataProblem(_, _, _)
DataProblem(ns, n, e) ==
    IF ns[n].kind = "atom" THEN e.kind # "atom" \/ e.type # ns[n].type_
    ELSE IF ns[n].kind = "list"
        THEN \/ e.kind # "list"
             \/ \E i \in DOMAIN e.items : DataProblem(ns, ns[n].children_[1], e.items[i])
             \/ has_attribute(ns, n, "min") /\ Len(e.items) < ns[n].attributes_["min"].value
    ELSE \/ e.kind # "group"
         \/ \E k \in DOMAIN ns[n].children_ :
                IF k \in DOMAIN e.settings THEN DataProblem(ns, ns[n].children_[k], e.settings[k])
                ELSE ns[ns[n].children_[k]].required_

\* C3: validate never raises for a data problem, it returns valid = false
C3_NeverRaises ==
    pc = "validated" /\ DataProblem(nodes, 1, elem) => ReturnedInvalid(result)

\* C4: an element tree that exactly matches the schema validates as valid
\* with strict = true
C4_MatchingTreeValid ==
    pc = "validated" /\ strict /\ Matches(nodes, 1, elem) => ReturnedValid(result)

\* the undeclared keys of the groups the validator reaches, such that the
\* configuration without the key validates as valid with strict = true
AddedKeys(e) ==
    {x \in [site : GroupSites(e), key : Names] :
        /\ x.key \in DOMAIN At(e, x.site.path).settings
        /\ x.key \notin DOMAIN nodes[x.site.node].children_
        /\ ReturnedValid(schema_validate(nodes, WithoutKey(e, x.site.path, x.key), TRUE))}

\* C5: an undeclared key added to a group of a valid tree makes strict
\* validation return invalid with a message naming the key, and leaves
\* non-strict validation valid
C5_UndeclaredKey ==
    pc = "validated" =>
        \A x \in AddedKeys(elem) :
            IF strict
                THEN /\ ReturnedInvalid(result)
                     /\ result.error_message = <<StrictText, x.key>>
            ELSE ReturnedValid(result)

\* an undeclared key in a group that is an element of a list was rejected
C5_Witness ==
    /\ pc = "validated" /\ strict
    /\ \E x \in AddedKeys(elem) :
            /\ \E i \in DOMAIN x.site.path : x.site.path[i].index # 0
            /\ result = validation_result(FALSE, uri(nodes, x.site.node),
                            <<StrictText, x.key>>)

\* every check of a validation in depth-first order, none skipped: group
\* children by sorted declared name, list elements by position, a group's
\* strict check and a list's min check after their children
RECURSIVE Checks(_, _, _, _), GroupChecks(_, _, _, _, _), ListChecks(_, _, _, _, _)
GroupChecks(ns, n, keys, e, s) ==
    IF keys = << >> THEN << >>
    ELSE LET c == ns[n].children_[Head(keys)]
         IN  (IF Head(keys) \in DOMAIN e.settings
                 THEN Checks(ns, c, e.settings[Head(keys)], s)
              ELSE IF ns[c].required_
                 THEN <<validation_result(FALSE, uri(ns, n), <<MissingText, Head(keys)>>)>>
              ELSE <<Valid>>)
             \o GroupChecks(ns, n, Tail(keys), e, s)

ListChecks(ns, n, items, i, s) ==
    IF i > Len(items) THEN << >>
    ELSE Checks(ns, ns[n].children_[1], items[i], s) \o ListChecks(ns, n, items, i + 1, s)

Checks(ns, n, e, s) ==
    IF ns[n].kind = "atom" THEN <<atom_validate(ns, n, e)>>
    ELSE IF ns[n].kind = "list"
        THEN IF e.kind # "list"
                THEN <<validation_result(FALSE, uri(ns, n), <<"List required", << >> >>)>>
             ELSE ListChecks(ns, n, e.items, 1, s) \o
                  <<IF has_attribute(ns, n, "min")
                        /\ Len(e.items) < ns[n].attributes_["min"].value
                        THEN validation_result(FALSE, uri(ns, n),
                                <<"List has not enough entries, need at least %",
                                  lexical_cast_string(ns[n].attributes_["min"].value)>>)
                    ELSE Valid>>
    ELSE IF e.kind # "group"
        THEN <<validation_result(FALSE, uri(ns, n), <<"Group required", << >> >>)>>
    ELSE GroupChecks(ns, n, SortedKeys(DOMAIN ns[n].children_), e, s) \o
         <<IF s THEN group_strict_loop(ns, n, SortedKeys(DOMAIN e.settings)) ELSE Valid>>

RECURSIVE FirstFailing(_)
FirstFailing(checks) ==
    IF checks = << >> THEN Valid
    ELSE IF ~Head(checks).valid THEN Head(checks)
    ELSE FirstFailing(Tail(checks))

\* C6: validation is depth-first in sorted and positional order, and the
\* first failing check is what validate returns
C6_FirstFailure ==
    pc = "validated" => result = FirstFailing(Checks(nodes, 1, elem, strict))

\* the declared children of the group node of a site that pass: present and
\* validating as valid, or absent and not required
Passes(st, k) ==
    LET c == nodes[st.node].children_[k]
        g == At(elem, st.path)
    IN  IF k \in DOMAIN g.settings
            THEN ReturnedValid(validate(nodes, c, g.settings[k], strict))
        ELSE ~nodes[c].required_

Missing(st, k) == validation_result(FALSE, uri(nodes, st.node), <<MissingText, k>>)

\* C7: an absent child of a group fails the validation of the group exactly
\* when the child's required flag is set, explicitly or inherited, with
\* 'Missing required attribute' located at the uri of the validating group;
\* absent children without the flag are skipped
C7_AbsentChild ==
    pc = "validated" =>
        \A st \in GroupSites(elem) :
            LET declared == DOMAIN nodes[st.node].children_
                present  == DOMAIN At(elem, st.path).settings
            IN  /\ \A k \in declared \ present :
                        (\A j \in declared : StrLess(j, k) => Passes(st, j)) =>
                            (SiteResult(st) = Missing(st, k)
                                <=> nodes[nodes[st.node].children_[k]].required_)
                /\ \A k \in declared :
                        SiteResult(st) = Missing(st, k) =>
                            k \notin present /\ nodes[nodes[st.node].children_[k]].required_
                /\ (\A j \in declared : Passes(st, j)) =>
                        IF strict /\ ~(present \subseteq declared)
                            THEN ReturnedInvalid(SiteResult(st))
                        ELSE SiteResult(st) = Valid

\* a group declared optional that has a required child is absent, and the
\* group above it reports the absent group as missing
C7_Witness ==
    /\ pc = "validated"
    /\ \E k \in DOMAIN nodes[1].children_ \ DOMAIN elem.settings :
            LET c == nodes[1].children_[k]
            IN  /\ nodes[c].kind = "group"
                /\ ~decl[c].required
                /\ \E d \in DOMAIN decl : decl[d].group = c /\ decl[d].required
                /\ result = validation_result(FALSE, <<"/">>, <<MissingText, k>>)
    /\ \E k \in DOMAIN nodes[1].children_ \ DOMAIN elem.settings :
            ~nodes[nodes[1].children_[k]].required_

(***************************************************************************)
(* Properties of the schema tree.                                          *)
(***************************************************************************)
\* C8: add_child(name, n, required) on a group sets n's name and makes the
\* group n's parent; when required is true or n is already required, n and
\* the group both end required, otherwise neither flag changes
C8_AddChild ==
    [][\A n \in DOMAIN decl :
            decl'[n] # decl[n] =>
                LET g == decl'[n].group
                IN  /\ nodes'[n].name_ = decl'[n].name
                    /\ nodes'[n].parent_ = g
                    /\ g \in DOMAIN nodes /\ nodes[g].kind = "group"
                    /\ IF decl'[n].required \/ nodes[n].required_
                           THEN nodes'[n].required_ /\ nodes'[g].required_
                       ELSE /\ nodes'[n].required_ = nodes[n].required_
                            /\ nodes'[g].required_ = nodes[g].required_]_vars

\* a node that was already required was attached without the marker to a
\* group that was not required before, and both are required now
C8_Witness ==
    \E n \in DOMAIN decl :
        /\ decl[n].group # NULL /\ ~decl[n].required
        /\ nodes[n].name_ = decl[n].name /\ nodes[n].parent_ = decl[n].group
        /\ nodes[n].required_ /\ nodes[decl[n].group].required_
        /\ \A m \in DOMAIN decl : decl[m].group = decl[n].group => m = n

\* the children of a schema node, and what lies below it
Children(n) ==
    IF nodes[n].kind = "atom" THEN {}
    ELSE {nodes[n].children_[k] : k \in DOMAIN nodes[n].children_}

RECURSIVE Descendants(_)
Descendants(n) == Children(n) \cup UNION {Descendants(c) : c \in Children(n)}

\* the groups fully built: every type is returned to its declaration
Built == pc # "parsing"

\* C9: in a tree built bottom-up every group with a descendant attached
\* with the explicit required marker is required, also when the descendant
\* lies below a list
C9_RequiredAncestors ==
    Built =>
        \A g \in DOMAIN nodes :
            nodes[g].kind = "group" =>
                \A d \in Descendants(g) : decl[d].required => nodes[g].required_

(***************************************************************************)
(* Properties of atoms.                                                    *)
(***************************************************************************)
\* the kinds of the schema language for the type tags of the variant
KindOf ==
    [bool |-> <<"b", "o", "o", "l">>, long |-> <<"i", "n", "t", "e", "g", "e", "r">>,
     double |-> <<"f", "l", "o", "a", "t">>, string |-> <<"s", "t", "r", "i", "n", "g">>]

\* the places where an atom schema meets an atom element
AtomSites(e) ==
    {st \in Sites(nodes, 1, e, << >>) :
        nodes[st.node].kind = "atom" /\ At(e, st.path).kind = "atom"}

TypeMismatch(n) ==
    validation_result(FALSE, uri(nodes, n), <<"Type mismatch, % required", KindOf[nodes[n].type_]>>)

\* C10: an atom validates exactly when its type tag equals the declared
\* tag; each of the twelve mismatching pairs is invalid at the atom's uri
\* with a message naming the expected kind, no coercion between them
C10_AtomTypeTag ==
    pc = "validated" =>
        /\ \A st \in AtomSites(elem) :
                LET r == validate(nodes, st.node, At(elem, st.path), strict)
                IN  IF At(elem, st.path).type = nodes[st.node].type_ THEN r = Valid
                    ELSE r = TypeMismatch(st.node)
        /\ \A k \in DOMAIN nodes[1].children_ :
                (/\ DOMAIN nodes[1].children_ = {k}
                 /\ DOMAIN elem.settings = {k}
                 /\ [node |-> nodes[1].children_[k], path |-> <<KeyStep(k)>>] \in AtomSites(elem))
                    => IF elem.settings[k].type = nodes[nodes[1].children_[k]].type_
                           THEN result = Valid
                       ELSE result = TypeMismatch(nodes[1].children_[k])

\* an integer value was validated against a float schema and rejected
C10_Witness ==
    /\ pc = "validated"
    /\ \E k \in DOMAIN nodes[1].children_ \cap DOMAIN elem.settings :
            /\ nodes[nodes[1].children_[k]].kind = "atom"
            /\ nodes[nodes[1].children_[k]].type_ = "double"
            /\ elem.settings[k] = atom("long", 1)
            /\ result = validation_result(FALSE, <<"/">> \o k,
                            <<"Type mismatch, % required", <<"f", "l", "o", "a", "t">> >>)

(***************************************************************************)
(* Properties of the kind checks.                                          *)
(***************************************************************************)
\* the message each kind of schema node gives to an element of another kind
KindRequired == [group |-> "Group required", list |-> "List required", atom |-> "Atom required"]

\* the places where a schema node meets an element of a different kind
KindMismatchSites(e) ==
    {st \in Sites(nodes, 1, e, << >>) : nodes[st.node].kind # At(e, st.path).kind}

\* C11: an element of a different kind than the schema node gives an invalid
\* result located at the node's own uri with 'Group required', 'List
\* required' or 'Atom required' according to the kind of the schema node
C11_KindRequired ==
    pc = "validated" =>
        /\ \A st \in KindMismatchSites(elem) :
                validate(nodes, st.node, At(elem, st.path), strict)
                    = validation_result(FALSE, uri(nodes, st.node),
                            <<KindRequired[nodes[st.node].kind], << >> >>)
        /\ \A k \in DOMAIN nodes[1].children_ :
                (/\ DOMAIN elem.settings = {k}
                 /\ \A j \in DOMAIN nodes[1].children_ : StrLess(j, k) =>
                        ~nodes[nodes[1].children_[j]].required_
                 /\ nodes[nodes[1].children_[k]].kind # elem.settings[k].kind)
                    => result = validation_result(FALSE, <<"/">> \o k \o
                                    (IF nodes[nodes[1].children_[k]].kind = "list"
                                        THEN <<"[", "]">> ELSE << >>),
                                    <<KindRequired[nodes[nodes[1].children_[k]].kind], << >> >>)

\* a group was handed to a list schema inside a list and reported there
C11_Witness ==
    /\ pc = "validated"
    /\ \E st \in KindMismatchSites(elem) :
            /\ nodes[st.node].kind = "list"
            /\ At(elem, st.path).kind = "group"
            /\ st.path # << >> /\ st.path[Len(st.path)].index # 0
            /\ result = validation_result(FALSE, uri(nodes, st.node), <<"List required", << >> >>)

(***************************************************************************)
(* Typed access to the element tree and the path resolver.                 *)
(***************************************************************************)
\* the element a walk along the tokens reaches when every step finds its
\* entry, NoValue when a step does not
RECURSIVE Walk(_, _)
Walk(e, tokens) ==
    IF tokens = << >> THEN e
    ELSE LET t == Head(tokens)
         IN  IF t.type = "string" /\ e.kind = "group" /\ t.value \in DOMAIN e.settings
                 THEN Walk(e.settings[t.value], Tail(tokens))
             ELSE IF /\ t.type = "unsigned int" /\ e.kind = "list"
                     /\ NumeralLess(t.value, lexical_cast_string(Len(e.items)))
                 THEN Walk(e.items[NumeralValue(t.value) + 1], Tail(tokens))
             ELSE NoValue

NotFound(path) == Throw("lookup_error", <<"Config setting not found (%)", path>>)

\* C12: lookup<T>(path) on a path the resolver accepts ends in the one
\* "setting not found" lookup failure naming the path whenever the walk fails
\* (missing key, index not below the size, name on a non-group, index on a
\* non-list) or the atom reached cannot be coerced to T.
C12_NotFound ==
    (pc = "returned" /\ call.op = "lookup" /\ util_split(call.path).thrown = "none") =>
        LET n == Walk(call.on, util_split(call.path).value)
        IN  (\/ n.kind = "none"
             \/ n.kind = "atom" /\ atom_as(n, call.T).thrown # "none")
                => outcome = NotFound(call.path)

\* C13: get(index) on a list returns the element at that position for an
\* index below size() and signals a lookup failure for every other index.
C13_BoundsChecked ==
    (pc = "returned" /\ call.op = "get") =>
        IF NumeralValue(call.index) < Len(call.on.items)
            THEN outcome = Return(call.on.items[NumeralValue(call.index) + 1])
            ELSE outcome.thrown = "lookup_error"

\* C14: lookup<T>(path, default) returns default when the path cannot be
\* resolved to an atom (the resolver fails, or the walk fails, or it ends at a
\* group or a list), returns the coerced value when it resolves, and lets the
\* coercion's own failure out when the atom cannot be coerced.
C14_Default ==
    (pc = "returned" /\ call.op = "lookup_default") =>
        LET tokens == util_split(call.path)
            n == IF tokens.thrown # "none" THEN NoValue ELSE Walk(call.on, tokens.value)
        IN  IF n.kind # "atom" THEN outcome = Return(call.default_value)
            ELSE outcome = atom_as(n, call.T)

\* the identifiers of the grammars: [A-Za-z_][A-Za-z0-9_]*
IsIdentifier(t) ==
    /\ t # << >>
    /\ t[1] \in LetterChars \cup {"_"}
    /\ \A i \in DOMAIN t : t[i] \in LetterChars \cup DigitChars \cup {"_"}

AllDigits(t) == t # << >> /\ \A i \in DOMAIN t : t[i] \in DigitChars

Malformed ==
    /\ outcome.thrown = "lookup_error"
    /\ outcome.what[1] \in {"Subsequent path separators found in config path (%)",
                            "Failed to parse config path (%) at token %"}
    /\ outcome.what[2] = call.path

\* C15: the resolver rejects with a malformed-path lookup failure every path
\* with a piece that is neither all digits nor an identifier.
C15_RejectsNonIdentifier ==
    (pc = "returned" /\ call.op = "split") =>
        ((\E i \in DOMAIN Pieces(call.path) :
                ~AllDigits(Pieces(call.path)[i]) /\ ~IsIdentifier(Pieces(call.path)[i]))
            => Malformed)

\* C16: the resolver rejects with a malformed-path lookup failure, returning
\* no token list, every path that yields an empty piece.
C16_RejectsEmptyPiece ==
    (pc = "returned" /\ call.op = "split") =>
        ((\E i \in DOMAIN Pieces(call.path) : Pieces(call.path)[i] = << >>)
            => Malformed)

\* the segment lists a well-formed path is written from
SegmentsOf ==
    [path \in WellFormedPaths |-> {l \in SegmentLists(MaxSegments) : Render(l) = path}]

\* the tokens the segments denote
TokensOf(segments) ==
    [i \in DOMAIN segments |->
        IF segments[i].kind = "index" THEN IndexToken(segments[i].value)
        ELSE NameToken(segments[i].value)]

\* C17: for a well-formed path of N segments the resolver returns exactly the
\* N tokens of the segments in textual order, an index token with the number's
\* value for a bracketed or all-digit segment and a name token with the text
\* for an identifier segment.
C17_TokensOfSegments ==
    (pc = "returned" /\ call.op = "split" /\ call.path \in WellFormedPaths) =>
        \A l \in SegmentsOf[call.path] : outcome = Return(TokenList(TokensOf(l)))

(***************************************************************************)
(* Schema tree shape, uri and uri_safe.                                    *)
(***************************************************************************)
\* the nodes of the schema tree: the root and what hangs below it
TreeNodes == {1} \cup Descendants(1)

\* a tree as a schema file gives it: every attached node is a child of its
\* parent, and a list has one child at most
ProperTree ==
    /\ \A n \in DOMAIN nodes : nodes[n].parent_ # NULL => n \in Children(nodes[n].parent_)
    /\ \A l \in DOMAIN nodes : nodes[l].kind = "list" => Len(nodes[l].children_) <= 1

\* C18: in a schema tree whose child names are identifiers no two distinct
\* group or list nodes have the same uri_safe(), so that the type and function
\* names made from it are pairwise distinct.
C18_UriSafeDistinct ==
    (pc = "building" /\ ProperTree) =>
        \A m, n \in {i \in TreeNodes : nodes[i].kind \in {"group", "list"}} :
            m # n => uri_safe(nodes, m) # uri_safe(nodes, n)

\* the segment of a node below the root: its name, "unnamed" without one,
\* and "[]" after it for a list
Segment(n) ==
    (IF nodes[n].name_ = << >> THEN <<"u", "n", "n", "a", "m", "e", "d">> ELSE nodes[n].name_)
        \o (IF nodes[n].kind = "list" THEN <<"[", "]">> ELSE << >>)

\* the segments from the root group down to n, each after a "/"
RECURSIVE PathFromRoot(_)
PathFromRoot(n) ==
    IF nodes[n].parent_ = NULL THEN << >>
    ELSE PathFromRoot(nodes[n].parent_) \o <<"/">> \o Segment(n)

\* C19: uri() is "/" for the root, and for a node below a root group it is
\* the segments from the root to the node joined by "/", the root's segment
\* empty so that the uri starts with "/", a list's segment ending in "[]", and
\* a node without a name written "unnamed".
C19_Uri ==
    pc = "building" =>
        \A n \in DOMAIN nodes : nodes[TopOf(nodes, n)].kind = "group" =>
            /\ uri(nodes, n) = (IF nodes[n].parent_ = NULL THEN <<"/">> ELSE PathFromRoot(n))
            /\ uri(nodes, n)[1] = "/"

C19_Witness ==
    /\ pc = "building"
    /\ \E l, n \in TreeNodes :
        /\ nodes[l].kind = "list" /\ nodes[l].parent_ = 1 /\ nodes[n].parent_ = l
        /\ nodes[l].name_ = <<"a">> /\ nodes[n].name_ = << >>
        /\ uri(nodes, 1) = <<"/">>
        /\ uri(nodes, l) = <<"/", "a", "[", "]">>
        /\ uri(nodes, n) = <<"/", "a", "[", "]", "/", "u", "n", "n", "a", "m", "e", "d">>

\* C20: a list schema has at most one child after any sequence of add_child
\* calls on it.
C20_ListOneChild ==
    pc = "building" =>
        \A l \in DOMAIN nodes : nodes[l].kind = "list" => Len(nodes[l].children_) <= 1

(***************************************************************************)
(* Attributes.                                                             *)
(***************************************************************************)
\* the positions in history of the add_attribute calls with a name
Adds(name) == {i \in DOMAIN history : history[i].name = name}

\* the value the node stores for a name that was added
Stored(name) == history[CHOOSE i \in Adds(name) : \A j \in Adds(name) : i <= j].value

\* C21: get_attribute<T>(name) raises a schema exception when no attribute
\* of the name was added and when the stored value's type is not T, and
\* returns the stored value otherwise; has_attribute(name) is true exactly
\* when an attribute of the name was added.
C21_Attributes ==
    pc = "attributes" =>
        /\ call.op = "get_attribute" =>
            IF Adds(call.path) = {} \/ Stored(call.path).type # call.T
                THEN outcome.thrown = "schema::exception"
                ELSE outcome = Return(Value(call.T, Stored(call.path).value))
        /\ call.op = "has_attribute" =>
            outcome = Return(Value("bool", Adds(call.path) # {}))

C21_Witness ==
    /\ pc = "attributes" /\ call.op = "get_attribute"
    /\ Len(history) = 3
    /\ \E i, j \in Adds(call.path) : i < j /\ history[i].value.type # history[j].value.type
    /\ outcome = Return(Value(call.T, Stored(call.path).value))

(***************************************************************************)
(* Precedence of the checks of one schema node.                            *)
(***************************************************************************)
\* the declared keys of group node n whose check fails on group element e:
\* absent and required, or present and not validating
FailingKeys(n, e) ==
    {k \in DOMAIN nodes[n].children_ :
        IF k \in DOMAIN e.settings
            THEN ~ReturnedValid(validate(nodes, nodes[n].children_[k], e.settings[k], strict))
            ELSE nodes[nodes[n].children_[k]].required_}

\* the positions of list element e that do not validate against n's child
FailingItems(n, e) ==
    {i \in DOMAIN e.items :
        ~ReturnedValid(validate(nodes, nodes[n].children_[1], e.items[i], strict))}

\* the outcome of the check of declared key k
KeyResult(n, e, k) ==
    IF k \in DOMAIN e.settings
        THEN validate(nodes, nodes[n].children_[k], e.settings[k], strict)
        ELSE validation_result(FALSE, uri(nodes, n), <<MissingText, k>>)

\* C29: in a strict group validation with an undeclared key, a failing
\* declared child (or a missing required one) is what is reported, the first in
\* key order, also when the undeclared key sorts before it; in a list
\* validation with a list shorter than min, a failing element is what is
\* reported, the first in position.
C29_Precedence ==
    pc = "validated" =>
        \A st \in Sites(nodes, 1, elem, << >>) :
            LET n == st.node
                e == At(elem, st.path)
                r == validate(nodes, n, e, strict)
            IN  /\ (/\ nodes[n].kind = "group" /\ e.kind = "group" /\ strict
                    /\ DOMAIN e.settings \ DOMAIN nodes[n].children_ # {}
                    /\ FailingKeys(n, e) # {})
                        => \E k \in FailingKeys(n, e) :
                            /\ \A j \in FailingKeys(n, e) : j = k \/ StrLess(k, j)
                            /\ r = KeyResult(n, e, k)
                /\ (/\ nodes[n].kind = "list" /\ e.kind = "list"
                    /\ has_attribute(nodes, n, "min")
                    /\ Len(e.items) < nodes[n].attributes_["min"].value
                    /\ FailingItems(n, e) # {})
                        => \E i \in FailingItems(n, e) :
                            /\ \A j \in FailingItems(n, e) : i <= j
                            /\ r = validate(nodes, nodes[n].children_[1], e.items[i], strict)

C29_Witness ==
    /\ pc = "validated" /\ strict
    /\ \E u \in DOMAIN elem.settings \ DOMAIN nodes[1].children_ :
       \E k \in FailingKeys(1, elem) :
            /\ StrLess(u, k)
            /\ k \in DOMAIN elem.settings
            /\ nodes[nodes[1].children_[k]].kind = "list" /\ elem.settings[k].kind = "list"
            /\ has_attribute(nodes, nodes[1].children_[k], "min")
            /\ Len(elem.settings[k].items) = 1
            /\ FailingItems(nodes[1].children_[k], elem.settings[k]) = {1}
            /\ result = KeyResult(1, elem, k)
            /\ ~result.valid /\ result.thrown = "none"

(***************************************************************************)
(* Ownership in groups.                                                    *)
(***************************************************************************)
\* C30: every node whose parent link points to a group g is stored in g's
\* child map under its own name, and g is required only if g was attached
\* as required or a node stored in its child map is required; also after an
\* add_child with a name the group already has.
C30_ChildMap ==
    \A g \in DOMAIN nodes : nodes[g].kind = "group" =>
        /\ \A n \in DOMAIN nodes : nodes[n].parent_ = g =>
                /\ nodes[n].name_ \in DOMAIN nodes[g].children_
                /\ nodes[g].children_[nodes[n].name_] = n
        /\ nodes[g].required_ =>
                \/ decl[g].required
                \/ \E k \in DOMAIN nodes[g].children_ : nodes[nodes[g].children_[k]].required_

(***************************************************************************)
(* The configuration stub.                                                 *)
(***************************************************************************)
\* the stub with a list written as '(' one stub of its child ')' when the
\* child is a group or a list, and as '[' placeholder ']' when it is an atom
RECURSIVE ExpectedStub(_), ExpectedDefinitions(_, _)
ExpectedDefinitions(n, keys) ==
    IF keys = << >> THEN << >>
    ELSE <<Tok("ID", Head(keys)), Punct("=")>>
            \o ExpectedStub(nodes[n].children_[Head(keys)]) \o <<Punct(";")>>
            \o ExpectedDefinitions(n, Tail(keys))

ExpectedStub(n) ==
    IF nodes[n].kind = "atom" THEN atom_generate_config_stub(nodes, n)
    ELSE IF nodes[n].kind = "group"
        THEN <<Punct("{")>>
                \o ExpectedDefinitions(n, SortedKeys(DOMAIN nodes[n].children_))
                \o <<Punct("}")>>
    ELSE IF nodes[nodes[n].children_[1]].kind = "atom"
        THEN <<Punct("[")>> \o ExpectedStub(nodes[n].children_[1]) \o <<Punct("]")>>
    ELSE <<Punct("(")>> \o ExpectedStub(nodes[n].children_[1]) \o <<Punct(")")>>

\* C22: the stub of a schema of the schema grammar is a configuration file
\* the configuration grammar accepts, and the element tree parsed from it
\* validates against the schema in non-strict mode.
C22_StubRoundTrip ==
    pc = "stub" =>
        LET file == parse_file(outcome.value.tokens)
        IN  /\ file.err = "none"
            /\ ReturnedValid(schema_validate(nodes, file.value, FALSE))

\* C27: in the stub a list whose child is a group or a list is '(' , a
\* single stub of the child, ')' , and a list whose child is an atom is '[' ,
\* the atom's placeholder, ']'.
C27_ListStub ==
    pc = "stub" =>
        outcome = Return(Text(ExpectedDefinitions(1, SortedKeys(DOMAIN nodes[1].children_))))

(***************************************************************************)
(* The tree builder.                                                       *)
(***************************************************************************)
\* what a schema tree is, from node n down: kind, type tag, name, required
\* flag, attributes, whether the parent link points to the node it hangs
\* under, and the children by name (group) or in order (list)
RECURSIVE Shape(_, _, _)
Shape(ns, n, parent) ==
    [kind |-> ns[n].kind, type_ |-> ns[n].type_, name_ |-> ns[n].name_,
     required_ |-> ns[n].required_,
     attributes_ |-> [a \in {x \in DOMAIN ns[n].attributes_ :
                                ns[n].attributes_[x].type # "double"} |->
                        ns[n].attributes_[a]],
     names |-> DOMAIN ns[n].attributes_,
     linked |-> ns[n].parent_ = parent,
     children |-> IF ns[n].kind = "atom" THEN << >>
                  ELSE [k \in DOMAIN ns[n].children_ |-> Shape(ns, ns[n].children_[k], n)]]

NewVars(stmts) == {i \in DOMAIN stmts : stmts[i].op = "new"}

\* C23: the tree builder gives every node its own variable, the root var0,
\* and running its statements in order rebuilds a tree equal to the schema
\* in kinds, type tags, child names and order, parent links, required flags
\* and the attribute names with their integer, boolean and string values.
C23_TreeBuilder ==
    pc = "generated" =>
        LET stmts == outcome.value.builder
        IN  /\ \A i, j \in NewVars(stmts) : stmts[i].var = stmts[j].var => i = j
            /\ stmts[1] = NewStatement(0, "group", "none")
            /\ Shape(generate_schema(stmts), 1, NULL) = Shape(nodes, 1, NULL)

(***************************************************************************)
(* The declarations.                                                       *)
(***************************************************************************)
\* the group and list nodes of the schema
Aggregates == {n \in {1} \cup Descendants(1) : nodes[n].kind # "atom"}

\* the name of the aggregate type of a group or list node, and the type a
\* reference to a node names
TypeName(n) ==
    IF n = 1 THEN ConfigName
    ELSE IF nodes[n].kind = "group" THEN GroupPrefix \o uri_safe(nodes, n)
    ELSE IF nodes[n].kind = "list" THEN ListPrefix \o uri_safe(nodes, n)
    ELSE c_type_string(nodes[n].type_)

\* the types a declaration refers to
References(d) ==
    IF d.decl = "struct" THEN {d.fields[i].type : i \in DOMAIN d.fields}
    ELSE {d.element}

\* C24: the declaration pass emits one aggregate type for every group and
\* list node, declared before any declaration referring to it, and every
\* reference to a child's type is the primitive type of an atom child and
\* the named aggregate type of a group or list child, the element type of
\* the typedef of a list of lists included.
C24_Declarations ==
    pc = "generated" =>
        LET d == outcome.value.declaration
        IN  /\ Len(d) = Cardinality(Aggregates)
            /\ \A n \in Aggregates :
                \E i \in DOMAIN d :
                    /\ d[i].name = TypeName(n)
                    /\ \A j \in DOMAIN d : d[j].name = d[i].name => j = i
                    /\ IF nodes[n].kind = "group"
                           THEN /\ d[i].decl = "struct"
                                /\ LET keys == SortedKeys(DOMAIN nodes[n].children_)
                                   IN  d[i].fields =
                                        [k \in DOMAIN keys |->
                                            [type |-> TypeName(nodes[n].children_[keys[k]]),
                                             name |-> keys[k]]]
                           ELSE /\ d[i].decl = "typedef"
                                /\ d[i].element = TypeName(nodes[n].children_[1])
                    /\ \A c \in Children(n) \cap Aggregates :
                        \E j \in 1..(i - 1) : d[j].name = TypeName(c)

(***************************************************************************)
(* The generated load_config and the extraction walk.                      *)
(***************************************************************************)
\* the schema generate_schema() of the generated code rebuilds
Rebuilt == generate_schema(generate_schema_body(nodes))

\* the extraction generate_Config has been run
Extracted == pc = "returned" /\ call.op = "generate_Config"

\* C25: load_config validates the configuration with strict = true against
\* the schema rebuilt by generate_schema before any extraction; an invalid
\* result ends it with a validation_error whose text holds the location
\* ("root level" for "/") and the message, and extraction is run only on a
\* configuration that passed.
C25_LoadConfig ==
    [][/\ (pc = "generated" /\ pc' # "generated") =>
            /\ strict'
            /\ result' = schema_validate(Rebuilt, elem', TRUE)
            /\ ~Extracted'
       /\ (pc = "checked" /\ ~result.valid) =>
            /\ outcome'.thrown = "validation_error"
            /\ outcome'.what[2] = (IF result.error_uri = <<"/">> THEN RootLevel
                                   ELSE result.error_uri)
            /\ outcome'.what[3] = result.error_message
            /\ ~Extracted'
       /\ Extracted' =>
            /\ pc = "checked"
            /\ strict /\ ReturnedValid(result)
            /\ result = schema_validate(Rebuilt, elem, TRUE)
            /\ elem' = elem
      ]_vars

C25_Witness ==
    /\ pc = "returned"
    /\ outcome.thrown = "validation_error"
    /\ result.error_uri = <<"/">>
    /\ outcome.what[2] = RootLevel

\* the function written for group g
FunctionOf(w, g) ==
    LET name == IF g = 1 THEN GeneratePrefix \o ConfigName
                ELSE GeneratePrefix \o GroupPrefix \o uri_safe(nodes, g)
    IN  w.functions[CHOOSE i \in DOMAIN w.functions : w.functions[i].function = name]

\* C26: in the function of a group the fetch of a child is guarded exactly
\* when the child's required flag is false; the fetch of a required child
\* that is missing ends with the lookup failure, the fetch of an optional
\* child that is missing leaves the field as the constructor set it.
C26_Guards ==
    pc = "checked" =>
        LET w == outcome.value
            defaults == Construct(w.declaration, ConfigName).fields
        IN  /\ \A g \in {n \in Aggregates : nodes[n].kind = "group"} :
                LET f == FunctionOf(w, g)
                    keys == SortedKeys(DOMAIN nodes[g].children_)
                IN  /\ Len(f.fetches) = Len(keys)
                    /\ \A i \in DOMAIN keys :
                        /\ f.fetches[i].key = keys[i]
                        /\ f.fetches[i].guarded = ~nodes[nodes[g].children_[keys[i]]].required_
            /\ \A i \in DOMAIN FunctionOf(w, 1).fetches :
                LET fetch == FunctionOf(w, 1).fetches[i]
                    it == nodes[1].children_[fetch.key]
                    o == RunFetches(w, <<fetch>>, elem, 1, defaults)
                IN  fetch.key \notin DOMAIN elem.settings =>
                        IF nodes[it].required_
                            THEN o = Throw("lookup_error", <<"Element not found (%)", fetch.key>>)
                            ELSE o = Return(StructValue(defaults))

C26_Witness ==
    /\ pc = "checked"
    /\ \E a, b \in DOMAIN nodes[1].children_ :
        /\ nodes[nodes[1].children_[a]].required_
        /\ ~nodes[nodes[1].children_[b]].required_
        /\ a \notin DOMAIN elem.settings
        /\ b \notin DOMAIN elem.settings

\* C28: when validate, strict or not, returns valid for an element tree,
\* the extraction walk written for the schema raises no lookup failure and
\* no coercion failure on that tree.
C28_ValidExtracts ==
    /\ pc = "checked" =>
        \A s \in BOOLEAN :
            ReturnedValid(schema_validate(nodes, elem, s)) =>
                generate_Config(outcome.value, elem).thrown = "none"
    /\ Extracted => outcome.thrown = "none"

C28_Witness ==
    /\ Extracted
    /\ outcome.thrown = "none"
    /\ \E k \in DOMAIN nodes[1].children_ :
        /\ nodes[nodes[1].children_[k]].required_
        /\ nodes[nodes[1].children_[k]].kind # "atom"
        /\ k \in DOMAIN elem.settings

====
